---- MODULE Spec2Model ----
(***************************************************************************)
(* PdfExcelXlator: PDFProcessor (pdf_processor.py), DataSanitizer          *)
(* (data_sanitizer.py) and ExcelConverter (excel_converter.py).            *)
(*                                                                         *)
(* A Python str is a sequence of one-character strings, so that slicing,   *)
(* stripping, splitting and regular-expression matching are computed       *)
(* character by character.  Two non-ASCII characters are written by name:  *)
(* "U3000" is the ideographic space, "ZH" a CJK ideograph and "U00C9" the  *)
(* capital E with acute accent.                                            *)
(***************************************************************************)
EXTENDS Integers, Sequences, FiniteSets, TLC

(***************************************************************************)
(* Characters                                                              *)
(***************************************************************************)
Lower == {"a", "b", "c", "d", "e", "f", "g", "h", "i", "j", "k", "l", "m",
          "n", "o", "p", "q", "r", "s", "t", "u", "v", "w", "x", "y", "z"}

Upper == {"A", "B", "C", "D", "E", "F", "G", "H", "I", "J", "K", "L", "M",
          "N", "O", "P", "Q", "R", "S", "T", "U", "V", "W", "X", "Y", "Z"}

Digit == {"0", "1", "2", "3", "4", "5", "6", "7", "8", "9"}

\* str.isspace / the class \s of a str pattern: ASCII whitespace and the
\* Unicode spaces, of which the model carries U+3000.
AsciiSpace == {" ", "\t", "\n", "\r", "\f"}

Whitespace == AsciiSpace \cup {"U3000"}

\* The class \w that \b is defined by (str pattern: Unicode alphanumerics
\* and the underscore).
WordChar == Lower \cup Upper \cup Digit \cup {"_", "ZH", "U00C9"}

\* str.isupper() of one character: the cased uppercase letters.
IsUpper(c) == c \in Upper \cup {"U00C9"}

(***************************************************************************)
(* Sequence helpers                                                        *)
(***************************************************************************)
Max2(a, b) == IF a >= b THEN a ELSE b

Min2(a, b) == IF a <= b THEN a ELSE b

\* s[i:j] of Python, 0-based, end exclusive.
Slice(s, i, j) == SubSeq(s, i + 1, j)

\* sub occurs in s at 0-based offset i.
OccursAt(sub, s, i) ==
    /\ i + Len(sub) <= Len(s)
    /\ \A k \in 1..Len(sub) : s[i + k] = sub[k]

\* `sub in s` of Python.
Contains(s, sub) == \E i \in 0..(Len(s) - Len(sub)) : OccursAt(sub, s, i)

RECURSIVE Concat(_)
\* ''.join(parts)
Concat(parts) ==
    IF parts = <<>> THEN <<>> ELSE Head(parts) \o Concat(Tail(parts))

RECURSIVE Join(_, _)
\* sep.join(parts)
Join(sep, parts) ==
    IF parts = <<>> THEN <<>>
    ELSE IF Len(parts) = 1 THEN parts[1]
    ELSE parts[1] \o sep \o Join(sep, Tail(parts))

RECURSIVE LStrip(_)
LStrip(s) ==
    IF s # <<>> /\ Head(s) \in Whitespace THEN LStrip(Tail(s)) ELSE s

RECURSIVE RStrip(_)
RStrip(s) ==
    IF s # <<>> /\ s[Len(s)] \in Whitespace
    THEN RStrip(SubSeq(s, 1, Len(s) - 1)) ELSE s

\* str.strip()
Strip(s) == RStrip(LStrip(s))

\* The least element of a set of offsets, or -1 for the empty set.
LeastOf(S) == IF S = {} THEN -1 ELSE CHOOSE j \in S : \A k \in S : j <= k

RECURSIVE SplitFrom(_, _, _)
RECURSIVE SplitAt(_, _, _, _)
\* The fields from position start on, the next separator being at j
\* (-1: none left).
SplitAt(s, c, start, j) ==
    IF j < 0 THEN << SubSeq(s, start, Len(s)) >>
    ELSE << SubSeq(s, start, j - 1) >> \o SplitFrom(s, c, j + 1)

SplitFrom(s, c, start) ==
    SplitAt(s, c, start, LeastOf({ i \in start..Len(s) : s[i] = c }))

\* str.split(c) for a one-character separator: always at least one field.
SplitChar(s, c) == SplitFrom(s, c, 1)

RECURSIVE WordsFrom(_, _)
RECURSIVE WordAt(_, _, _)
\* The token that starts at position i and ends before the whitespace at j
\* (-1: at the end of s), then the tokens after it.
WordAt(s, i, j) ==
    IF j < 0 THEN << SubSeq(s, i, Len(s)) >>
    ELSE << SubSeq(s, i, j - 1) >> \o WordsFrom(s, j + 1)

\* The tokens from position start on, the next one starting at i (-1: none).
WordsAfter(s, i) ==
    IF i < 0 THEN <<>>
    ELSE WordAt(s, i, LeastOf({ j \in i..Len(s) : s[j] \in Whitespace }))

WordsFrom(s, start) ==
    WordsAfter(s, LeastOf({ i \in start..Len(s) : s[i] \notin Whitespace }))

\* str.split() without argument: the whitespace-separated tokens.
SplitWords(s) == WordsFrom(s, 1)

RECURSIVE DigitsOf(_)
DigitsOf(n) ==
    LET d == << (<<"0", "1", "2", "3", "4", "5", "6", "7", "8", "9">>)[(n % 10) + 1] >>
    IN IF n < 10 THEN d ELSE DigitsOf(n \div 10) \o d

\* str(n) / f"{n}" of a non-negative int.
IntStr(n) == DigitsOf(n)

(***************************************************************************)
(* Regular expressions (module re, backtracking, leftmost match).          *)
(* A pattern is a sequence of nodes; Ends lists the offsets at which a     *)
(* match starting at offset i may end, in the order the backtracking       *)
(* matcher tries them, so its head is the match re finds.                  *)
(***************************************************************************)
\* [set]{lo,hi}, greedy; hi = -1 for no upper limit.
Cls(set, lo, hi) == [t |-> "cls", set |-> set, lo |-> lo, hi |-> hi]

\* \b
Bnd == [t |-> "bnd"]

\* (sub)?, greedy
Opt(sub) == [t |-> "opt", sub |-> sub]

\* a|b
Alt(a, b) == [t |-> "alt", a |-> a, b |-> b]

IsBoundary(s, i) ==
    (i > 0 /\ s[i] \in WordChar) # (i < Len(s) /\ s[i + 1] \in WordChar)

RECURSIVE RunLen(_, _, _, _)
\* How many characters of `set` follow offset i, at most `cap` (-1: any).
RunLen(set, s, i, cap) ==
    IF cap = 0 \/ i >= Len(s) \/ s[i + 1] \notin set THEN 0
    ELSE 1 + RunLen(set, s, i + 1, IF cap < 0 THEN cap ELSE cap - 1)

RECURSIVE Ends(_, _, _)
RECURSIVE NodeEnds(_, _, _)
RECURSIVE EndsFromAll(_, _, _)

EndsFromAll(pat, s, starts) ==
    IF starts = <<>> THEN <<>>
    ELSE Ends(pat, s, Head(starts)) \o EndsFromAll(pat, s, Tail(starts))

NodeEnds(n, s, i) ==
    CASE n.t = "cls" ->
           LET run == RunLen(n.set, s, i, n.hi)
           IN IF run < n.lo THEN <<>>
              ELSE [k \in 1..(run - n.lo + 1) |-> i + run - k + 1]
      [] n.t = "bnd" -> IF IsBoundary(s, i) THEN <<i>> ELSE <<>>
      [] n.t = "opt" -> Ends(n.sub, s, i) \o <<i>>
      [] n.t = "alt" -> Ends(n.a, s, i) \o Ends(n.b, s, i)

Ends(pat, s, i) ==
    IF Len(pat) = 0 THEN <<i>>
    ELSE EndsFromAll(Tail(pat), s, NodeEnds(Head(pat), s, i))

\* The end of the match of pat at offset i, or -1.
MatchEnd(pat, s, i) ==
    LET es == Ends(pat, s, i) IN IF es = <<>> THEN -1 ELSE Head(es)

\* The first offset from i on where pat matches a non-empty string, or -1:
\* where the scan from left to right finds its next match.
FirstMatch(pat, s, i) ==
    LeastOf({ j \in i..(Len(s) - 1) : MatchEnd(pat, s, j) > j })

RECURSIVE SubFrom(_, _, _, _)
RECURSIVE SubAt(_, _, _, _, _)
\* The scan from offset i whose next match starts at j (-1: no match left).
SubAt(pat, repl, s, i, j) ==
    IF j < 0 THEN Slice(s, i, Len(s))
    ELSE Slice(s, i, j) \o repl \o SubFrom(pat, repl, s, MatchEnd(pat, s, j))

SubFrom(pat, repl, s, i) == SubAt(pat, repl, s, i, FirstMatch(pat, s, i))

\* pattern.sub(repl, s) for a pattern that matches no empty string.
ReSub(pat, repl, s) == SubFrom(pat, repl, s, 0)

RECURSIVE ReSplitFrom(_, _, _)
RECURSIVE ReSplitAt(_, _, _, _)
\* The pieces from offset start on, the next match starting at j (-1: none).
ReSplitAt(pat, s, start, j) ==
    IF j < 0 THEN << Slice(s, start, Len(s)) >>
    ELSE << Slice(s, start, j) >> \o ReSplitFrom(pat, s, MatchEnd(pat, s, j))

ReSplitFrom(pat, s, start) == ReSplitAt(pat, s, start, FirstMatch(pat, s, start))

\* re.split(pat, s) for a pattern without groups that matches no empty string.
ReSplit(pat, s) == ReSplitFrom(pat, s, 0)

(***************************************************************************)
(* DataSanitizer (data_sanitizer.py)                                       *)
(***************************************************************************)
\* [-.\s]
PhoneSep == {"-", "."} \cup Whitespace

\* [-\s]
CardSep == {"-"} \cup Whitespace

\* Mutant: the top-level name needs three letters.
EmailPatternLongTld ==
    << Bnd,
       Cls(Upper \cup Lower \cup Digit \cup {".", "_", "%", "+", "-"}, 1, -1),
       Cls({"@"}, 1, 1),
       Cls(Upper \cup Lower \cup Digit \cup {".", "-"}, 1, -1),
       Cls({"."}, 1, 1),
       Cls(Upper \cup Lower \cup {"|"}, 3, -1),
       Bnd >>

\* r'\b[A-Za-z0-9._%+-]+@[A-Za-z0-9.-]+\.[A-Z|a-z]{2,}\b'
email_pattern ==
    << Bnd,
       Cls(Upper \cup Lower \cup Digit \cup {".", "_", "%", "+", "-"}, 1, -1),
       Cls({"@"}, 1, 1),
       Cls(Upper \cup Lower \cup Digit \cup {".", "-"}, 1, -1),
       Cls({"."}, 1, 1),
       Cls(Upper \cup Lower \cup {"|"}, 2, -1),
       Bnd >>

\* Mutant: the phone pattern between word boundaries.
PhonePatternBounded ==
    << Bnd,
       Opt(<< Cls({"+"}, 0, 1), Cls(Digit, 1, 3), Cls(PhoneSep, 0, 1) >>),
       Cls({"("}, 0, 1), Cls(Digit, 3, 3), Cls({")"}, 0, 1),
       Cls(PhoneSep, 0, 1), Cls(Digit, 3, 3),
       Cls(PhoneSep, 0, 1), Cls(Digit, 4, 4),
       Bnd >>

\* r'(\+?\d{1,3}[-.\s]?)?\(?\d{3}\)?[-.\s]?\d{3}[-.\s]?\d{4}'
phone_pattern ==
    << Opt(<< Cls({"+"}, 0, 1), Cls(Digit, 1, 3), Cls(PhoneSep, 0, 1) >>),
       Cls({"("}, 0, 1), Cls(Digit, 3, 3), Cls({")"}, 0, 1),
       Cls(PhoneSep, 0, 1), Cls(Digit, 3, 3),
       Cls(PhoneSep, 0, 1), Cls(Digit, 4, 4) >>

\* r'\b\d{3}-\d{2}-\d{4}\b'
ssn_pattern ==
    << Bnd, Cls(Digit, 3, 3), Cls({"-"}, 1, 1), Cls(Digit, 2, 2),
       Cls({"-"}, 1, 1), Cls(Digit, 4, 4), Bnd >>

\* r'\b\d{4}[-\s]?\d{4}[-\s]?\d{4}[-\s]?\d{4}\b'
credit_card_pattern ==
    << Bnd, Cls(Digit, 4, 4), Cls(CardSep, 0, 1), Cls(Digit, 4, 4),
       Cls(CardSep, 0, 1), Cls(Digit, 4, 4), Cls(CardSep, 0, 1),
       Cls(Digit, 4, 4), Bnd >>

\* r'\b\d{6,12}\b'
id_number_pattern == << Bnd, Cls(Digit, 6, 12), Bnd >>

\* r'\b\d{4,}\b'
numeric_sequences == << Bnd, Cls(Digit, 4, -1), Bnd >>

\* r'\b\d{15}|\d{17}[\dXx]\b': the alternation binds loosest.
chinese_id_pattern ==
    << Alt(<< Bnd, Cls(Digit, 15, 15) >>,
           << Cls(Digit, 17, 17), Cls(Digit \cup {"X", "x"}, 1, 1), Bnd >>) >>

EMAIL_REDACTED == <<"[", "E", "M", "A", "I", "L", "_", "R", "E", "D", "A", "C", "T", "E", "D", "]">>

PHONE_REDACTED == <<"[", "P", "H", "O", "N", "E", "_", "R", "E", "D", "A", "C", "T", "E", "D", "]">>

SSN_REDACTED == <<"[", "S", "S", "N", "_", "R", "E", "D", "A", "C", "T", "E", "D", "]">>

CARD_REDACTED == <<"[", "C", "A", "R", "D", "_", "R", "E", "D", "A", "C", "T", "E", "D", "]">>

ID_REDACTED == <<"[", "I", "D", "_", "R", "E", "D", "A", "C", "T", "E", "D", "]">>

NUMBER_REDACTED == <<"[", "N", "U", "M", "B", "E", "R", "_", "R", "E", "D", "A", "C", "T", "E", "D", "]">>

\* The basic-sanitization block: six substitutions in source order.
BasicSanitize(text) ==
    LET t1 == ReSub(email_pattern, EMAIL_REDACTED, text)
        t2 == ReSub(phone_pattern, PHONE_REDACTED, t1)
        t3 == ReSub(ssn_pattern, SSN_REDACTED, t2)
        t4 == ReSub(credit_card_pattern, CARD_REDACTED, t3)
        t5 == ReSub(chinese_id_pattern, ID_REDACTED, t4)
    IN ReSub(id_number_pattern, ID_REDACTED, t5)

\* DataSanitizer.sanitize_text for a str argument.
sanitize_text(text, basic_sanitization, redact_numbers) ==
    IF text = <<>> THEN <<>>
    ELSE LET basic == IF basic_sanitization THEN BasicSanitize(text) ELSE text
         IN IF redact_numbers
            THEN ReSub(numeric_sequences, NUMBER_REDACTED, basic)
            ELSE basic

(***************************************************************************)
(* PDFProcessor (pdf_processor.py)                                         *)
(*                                                                         *)
(* A document is what the code reads of the bytes: their length, whether   *)
(* they start with %PDF-, whether they contain %%EOF, and the pages the    *)
(* parser yields (each page's text and raw tables).  A raw cell is a str   *)
(* or None: [none |-> TRUE] is None, [none |-> FALSE, s |-> chars] a str.  *)
(***************************************************************************)
max_file_size == 50 * 1024 * 1024

NoneCell == [none |-> TRUE, s |-> <<>>]

\* A value of df.attrs: an int, a str, or the key being absent.
IntVal(n) == [t |-> "int", n |-> n, s |-> <<>>]

StrVal(s) == [t |-> "str", n |-> 0, s |-> s]

Absent == [t |-> "absent", n |-> 0, s |-> <<>>]

StrCell(s) == [none |-> FALSE, s |-> s]

\* f"{n/1024/1024:.1f}": n bytes in tenths of a MB, ties to the even tenth.
TenthsOfMB(n) ==
    LET q == (n * 10) \div (1024 * 1024)
        r == (n * 10) % (1024 * 1024)
    IN IF 2 * r > 1024 * 1024 \/ (2 * r = 1024 * 1024 /\ q % 2 = 1)
       THEN q + 1 ELSE q

\* ValueError("File too large: <actual>MB. Maximum allowed: <maximum>MB"),
\* both sizes in tenths of a MB.
SizeError(n) ==
    [kind |-> "size", actual |-> TenthsOfMB(n), maximum |-> TenthsOfMB(max_file_size)]

\* Mutant: the signature check is missing.
ValidateWithoutHeader(pdf) ==
    IF pdf.size > max_file_size
    THEN SizeError(pdf.size)
    ELSE IF ~pdf.eof THEN [kind |-> "eof"]
    ELSE [kind |-> "ok"]

\* Mutant: the signature and the EOF marker are checked before the size.
ValidateHeaderFirst(pdf) ==
    IF ~pdf.header THEN [kind |-> "header"]
    ELSE IF ~pdf.eof THEN [kind |-> "eof"]
    ELSE IF pdf.size > max_file_size
    THEN SizeError(pdf.size)
    ELSE [kind |-> "ok"]

\* _validate_pdf_security: "ok" or the ValueError raised, checks in source order.
_validate_pdf_security(pdf) ==
    IF pdf.size > max_file_size
    THEN SizeError(pdf.size)
    ELSE IF ~pdf.header THEN [kind |-> "header"]
    ELSE IF ~pdf.eof THEN [kind |-> "eof"]
    ELSE [kind |-> "ok"]

\* The except clause of extract_text / extract_tables: every failure is
\* re-raised as one Exception carrying the cause.
Raised(op, cause) == [kind |-> "error", op |-> op, cause |-> cause]

\* re.sub(r'\s+', ' ', page_text).strip()
CollapseWhitespace(page_text) ==
    Strip(ReSub(<< Cls(Whitespace, 1, -1) >>, << " " >>, page_text))

RECURSIVE MergeLoop(_, _, _)
\* The loop over lines of the block-merging branch, then the flush after it.
MergeLoop(lines, merged_lines, current_block) ==
    IF lines = <<>>
    THEN IF current_block # <<>> THEN Append(merged_lines, current_block)
         ELSE merged_lines
    ELSE LET line == Strip(Head(lines))
         IN IF line # <<>>
            THEN IF /\ current_block # <<>>
                    /\ ~IsUpper(line[1])
                    /\ Len(current_block) < 100
                 THEN MergeLoop(Tail(lines), merged_lines,
                                current_block \o << " " >> \o line)
                 ELSE MergeLoop(Tail(lines),
                                IF current_block # <<>>
                                THEN Append(merged_lines, current_block)
                                ELSE merged_lines,
                                line)
            ELSE MergeLoop(Tail(lines),
                           IF current_block # <<>>
                           THEN Append(merged_lines, current_block)
                           ELSE merged_lines,
                           <<>>)

MergeTextBlocks(page_text) ==
    Join(<< "\n" >>, MergeLoop(SplitChar(page_text, "\n"), <<>>, <<>>))

\* The body of `if page_text:`.
ProcessPageText(page_text, preserve_formatting, merge_text_blocks) ==
    LET t1 == IF ~preserve_formatting THEN CollapseWhitespace(page_text)
              ELSE page_text
    IN IF merge_text_blocks THEN MergeTextBlocks(t1) ELSE t1

PAGE_BREAK == <<"\n", "\n", "-", "-", "-", " ", "P", "a", "g", "e", " ", "B", "r", "e", "a", "k", " ", "-", "-", "-", "\n", "\n">>

\* The statements of extract_text that the loop over pdf.pages repeats: only
\* the assignment to page_text is in the loop body, so after the loop
\* page_text is the last page's text, and it is unbound without pages.
TextLoopLastPage(pages) ==
    IF pages = <<>> THEN [bound |-> FALSE, text |-> <<>>]
    ELSE [bound |-> TRUE, text |-> pages[Len(pages)].text]

\* The exception of pdfplumber.open for bytes the parser finds no document
\* in (pdf.opens is false).
OPEN_ERROR == [kind |-> "open"]

\* extract_text from pdfplumber.open to its return or raise.
ExtractTextBody(pdf, preserve_formatting, split_by_pages, merge_text_blocks) ==
    LET last == TextLoopLastPage(pdf.pages)
        extracted_text ==
            IF last.text # <<>>
            THEN << ProcessPageText(last.text, preserve_formatting,
                                    merge_text_blocks) >>
            ELSE << <<>> >>
    IN IF ~pdf.opens THEN Raised("text", OPEN_ERROR)
       ELSE IF ~last.bound THEN Raised("text", [kind |-> "unbound"])
       ELSE IF extracted_text = <<>> THEN Raised("text", [kind |-> "notext"])
       ELSE IF split_by_pages THEN [kind |-> "pages", pages |-> extracted_text]
       ELSE [kind |-> "text", text |-> Join(PAGE_BREAK, extracted_text)]

\* extract_text as a whole; parses counts the calls of pdfplumber.open.
extract_text(pdf, preserve_formatting, split_by_pages, merge_text_blocks) ==
    LET v == _validate_pdf_security(pdf)
    IN IF v.kind # "ok" THEN [res |-> Raised("text", v), parses |-> 0]
       ELSE [res |-> ExtractTextBody(pdf, preserve_formatting, split_by_pages,
                                     merge_text_blocks),
             parses |-> 1]

(***************************************************************************)
(* Tables.  A DataFrame is its column labels, its rows of cells and the     *)
(* entries page and table of its attrs.                                    *)
(***************************************************************************)
COLUMN_ == <<"C", "o", "l", "u", "m", "n", "_">>

NONE_STR == <<"N", "o", "n", "e">>

\* f'Column_{i+1}' for the 0-based i.
ColumnName(i) == COLUMN_ \o IntStr(i + 1)

RECURSIVE MaxRowLen(_)
MaxRowLen(rows) ==
    IF rows = <<>> THEN 0 ELSE Max2(Len(Head(rows)), MaxRowLen(Tail(rows)))

\* row + [fill] * (n - len(row))
PadRow(row, n, fill) == row \o [k \in 1..(n - Len(row)) |-> fill]

\* Mutant: short rows are kept as they are instead of being filled up.
PdDataFrameUnpadded(data, header) ==
    IF data = <<>> THEN [ok |-> TRUE, columns |-> header, rows |-> <<>>]
    ELSE IF MaxRowLen(data) # Len(header)
    THEN [ok |-> FALSE, columns |-> header, rows |-> <<>>]
    ELSE [ok |-> TRUE, columns |-> header, rows |-> data]

\* pd.DataFrame(data, columns=header) for a list of lists: the width is the
\* longest row's, shorter rows are filled with None, and a width other than
\* the number of column labels raises ValueError.
PdDataFrame(data, header) ==
    IF data = <<>> THEN [ok |-> TRUE, columns |-> header, rows |-> <<>>]
    ELSE IF MaxRowLen(data) # Len(header)
    THEN [ok |-> FALSE, columns |-> header, rows |-> <<>>]
    ELSE [ok |-> TRUE, columns |-> header,
          rows |-> [r \in 1..Len(data) |-> PadRow(data[r], Len(header), NoneCell)]]

\* df.empty
DfEmpty(df) == Len(df.rows) = 0 \/ Len(df.columns) = 0

\* str(x) of a cell (astype(str)).
CellStr(c) == IF c.none THEN NONE_STR ELSE c.s

\* A row dropna(how='all') drops: every value is None.
RowAllNone(row) == \A k \in 1..Len(row) : row[k].none

\* A row of (df.astype(str) == '').all(axis=1).
RowAllEmptyStr(row) == \A k \in 1..Len(row) : CellStr(row[k]) = <<>>

\* Mutant: only the rows of None are dropped, not those of empty strings.
RemoveOnlyNoneRows(rows) == SelectSeq(rows, LAMBDA row : ~RowAllNone(row))

\* The rows the empty-row removal keeps, in order.
RemoveEmptyRows(rows) ==
    SelectSeq(rows, LAMBDA row : ~RowAllNone(row) /\ ~RowAllEmptyStr(row))

\* [str(col).strip() if col is not None else f'Column_{i+1}' ...]
CleanColumns(columns) ==
    [i \in 1..Len(columns) |->
        IF columns[i].none THEN ColumnName(i - 1) ELSE Strip(columns[i].s)]

\* astype(str), str.strip(), replace('None', '') of one cell.
CleanCell(c) ==
    LET v == Strip(CellStr(c))
    IN StrCell(IF v = NONE_STR THEN <<>> ELSE v)

CleanRow(row) == [k \in 1..Len(row) |-> CleanCell(row[k])]

HasDuplicates(seq) ==
    \E i, j \in 1..Len(seq) : i < j /\ seq[i] = seq[j]

\* The body of the loop over `tables` for one raw table: "skip" (falsy
\* table), "raise", or the cleaned DataFrame with its attrs.
BuildTable(table, remove_empty_rows, page, table_no) ==
    IF table = <<>> THEN [kind |-> "skip"]
    ELSE
    LET header == IF table[1] # <<>> THEN table[1]
                  ELSE [i \in 1..(IF Len(table) > 1 THEN Len(table[2]) ELSE 0)
                          |-> StrCell(ColumnName(i - 1))]
        data == IF Len(table) > 1 THEN Tail(table) ELSE <<>>
        df0 == PdDataFrame(data, header)
        rows1 == IF remove_empty_rows THEN RemoveEmptyRows(df0.rows)
                 ELSE df0.rows
        columns == CleanColumns(df0.columns)
    IN IF ~df0.ok THEN [kind |-> "raise", cause |-> [kind |-> "columns"]]
       \* df[col] of a repeated label is a DataFrame, which has no .str
       ELSE IF HasDuplicates(columns)
       THEN [kind |-> "raise", cause |-> [kind |-> "duplicate"]]
       ELSE [kind |-> "df",
             df |-> [columns |-> columns,
                     rows |-> [r \in 1..Len(rows1) |-> CleanRow(rows1[r])],
                     page |-> IntVal(page), table |-> IntVal(table_no)]]

RECURSIVE TablesLoop(_, _, _, _, _)
\* for table_num, table in enumerate(tables), from the 0-based table_num on:
\* the DataFrames appended to all_tables, or the first failure.
TablesLoop(tables, table_num, remove_empty_rows, page, all_tables) ==
    IF table_num >= Len(tables) THEN [ok |-> TRUE, tables |-> all_tables]
    ELSE LET b == BuildTable(tables[table_num + 1], remove_empty_rows, page,
                             table_num + 1)
         IN IF b.kind = "raise"
            THEN [ok |-> FALSE, tables |-> <<>>, cause |-> b.cause]
            ELSE TablesLoop(tables, table_num + 1, remove_empty_rows, page,
                            IF b.kind = "df" /\ ~DfEmpty(b.df)
                            THEN Append(all_tables, b.df) ELSE all_tables)

\* The loop over pdf.pages of extract_tables repeats only the assignment to
\* `tables`: after it, tables and page_num are the last page's.
TablesLoopLastPage(pages) ==
    IF pages = <<>> THEN [bound |-> FALSE, tables |-> <<>>, page_num |-> 0]
    ELSE [bound |-> TRUE, tables |-> pages[Len(pages)].tables,
          page_num |-> Len(pages) - 1]

\* any(char in line for char in ['\t', '  ', '|', ','])
HasDelimiterHint(line) ==
    \/ Contains(line, << "\t" >>)
    \/ Contains(line, << " ", " " >>)
    \/ Contains(line, << "|" >>)
    \/ Contains(line, << "," >>)

\* The lines of a page kept as potential_table_lines.
PotentialTableLines(page_text) ==
    LET lines == SplitChar(page_text, "\n")
        stripped == [k \in 1..Len(lines) |-> Strip(lines[k])]
    IN SelectSeq(stripped,
                 LAMBDA line : Len(SplitWords(line)) >= 2 /\ HasDelimiterHint(line))

\* The row one potential table line is split into.
SplitTableLine(line) ==
    IF Contains(line, << "\t" >>) THEN SplitChar(line, "\t")
    ELSE IF Contains(line, << "|" >>)
    THEN SelectSeq([k \in 1..Len(SplitChar(line, "|")) |->
                       Strip(SplitChar(line, "|")[k])],
                   LAMBDA cell : cell # <<>>)
    ELSE ReSplit(<< Cls(Whitespace, 2, -1) >>, line)

\* The DataFrames the fallback builds from one page text (none or one).
AlternativePageTables(page_text, page_num) ==
    LET potential == PotentialTableLines(page_text)
        split == [k \in 1..Len(potential) |-> SplitTableLine(potential[k])]
        rows == SelectSeq(split, LAMBDA row : Len(row) > 1)
        max_cols == MaxRowLen(rows)
        padded_rows == [r \in 1..Len(rows) |-> PadRow(rows[r], max_cols, <<>>)]
    IN IF Len(potential) >= 2 /\ Len(rows) > 1
       THEN << [columns |-> padded_rows[1],
                rows |-> [r \in 1..(Len(padded_rows) - 1) |->
                            [k \in 1..max_cols |-> StrCell(padded_rows[r + 1][k])]],
                page |-> IntVal(page_num + 1), table |-> IntVal(1)] >>
       ELSE <<>>

RECURSIVE AlternativeLoop(_, _)
AlternativeLoop(text_data, page_num) ==
    IF page_num >= Len(text_data) THEN <<>>
    ELSE AlternativePageTables(text_data[page_num + 1], page_num)
         \o AlternativeLoop(text_data, page_num + 1)

\* _extract_tables_alternative: it calls extract_text again (split by pages,
\* formatting preserved) and answers [] when that fails.
_extract_tables_alternative(pdf) ==
    LET t == extract_text(pdf, TRUE, TRUE, FALSE)
    IN [tables |-> IF t.res.kind = "pages" THEN AlternativeLoop(t.res.pages, 0)
                   ELSE <<>>,
        parses |-> t.parses]

\* extract_tables from pdfplumber.open to its return or raise.
ExtractTablesBody(pdf, remove_empty_rows) ==
    LET last == TablesLoopLastPage(pdf.pages)
        primary == TablesLoop(last.tables, 0, remove_empty_rows,
                              last.page_num + 1, <<>>)
        alt == _extract_tables_alternative(pdf)
    IN IF ~pdf.opens
       THEN [res |-> Raised("tables", OPEN_ERROR), parses |-> 1]
       ELSE IF ~last.bound
       THEN [res |-> Raised("tables", [kind |-> "unbound"]), parses |-> 1]
       ELSE IF ~primary.ok
       THEN [res |-> Raised("tables", primary.cause), parses |-> 1]
       ELSE IF primary.tables = <<>>
       THEN [res |-> [kind |-> "tables", tables |-> alt.tables, fallback |-> TRUE],
             parses |-> 1 + alt.parses]
       ELSE [res |-> [kind |-> "tables", tables |-> primary.tables,
                      fallback |-> FALSE],
             parses |-> 1]

\* extract_tables as a whole.
extract_tables(pdf, remove_empty_rows) ==
    LET v == _validate_pdf_security(pdf)
    IN IF v.kind # "ok" THEN [res |-> Raised("tables", v), parses |-> 0]
       ELSE ExtractTablesBody(pdf, remove_empty_rows)

\* if page_text and page_text.strip()
PageHasText(page) == page.text # <<>> /\ Strip(page.text) # <<>>

RECURSIVE TotalCharacters(_)
\* info['total_characters']: len(page_text) summed over the pages with text.
TotalCharacters(pages) ==
    IF pages = <<>> THEN 0
    ELSE (IF PageHasText(Head(pages)) THEN Len(Head(pages).text) ELSE 0)
         + TotalCharacters(Tail(pages))

\* get_pdf_info: the bytes go to pdfplumber.open without the security
\* validation; the dict returned for the pages the parser yields, and
\* {'error': str(e)} when pdfplumber.open raises.  The documents carry no
\* metadata (pdf.metadata is {}).
get_pdf_info(pdf) ==
    IF ~pdf.opens THEN [kind |-> "info_error", cause |-> OPEN_ERROR]
    ELSE [kind |-> "info",
          num_pages |-> Len(pdf.pages),
          metadata |-> <<>>,
          pages_with_text |->
              Cardinality({i \in 1..Len(pdf.pages) : PageHasText(pdf.pages[i])}),
          pages_with_tables |->
              Cardinality({i \in 1..Len(pdf.pages) : pdf.pages[i].tables # <<>>}),
          total_characters |-> TotalCharacters(pdf.pages)]

(***************************************************************************)
(* DataSanitizer.sanitize_dataframe and sanitize_extracted_data.  A Python *)
(* value is a record with its type k and, by type, the characters s of a   *)
(* str, the number n of an int, the items of a list, the keys and items    *)
(* (values) of a dict, the DataFrame df; k = "raise" marks an exception.   *)
(***************************************************************************)
NoFrame == [columns |-> <<>>, rows |-> <<>>, page |-> Absent, table |-> Absent]

PyValue(k, s, n, items, keys, df) ==
    [k |-> k, s |-> s, n |-> n, items |-> items, keys |-> keys, df |-> df]

PyStr(s) == PyValue("str", s, 0, <<>>, <<>>, NoFrame)

PyInt(n) == PyValue("int", <<>>, n, <<>>, <<>>, NoFrame)

PyNone == PyValue("none", <<>>, 0, <<>>, <<>>, NoFrame)

PyList(items) == PyValue("list", <<>>, 0, items, <<>>, NoFrame)

PyDict(keys, items) == PyValue("dict", <<>>, 0, items, keys, NoFrame)

PyFrame(df) == PyValue("df", <<>>, 0, <<>>, <<>>, df)

PyRaise == PyValue("raise", <<>>, 0, <<>>, <<>>, NoFrame)

\* The escape repr() writes for the character c of a str delimited by the
\* quote q: the backslash and the delimiter get a backslash, tab, newline
\* and carriage return their letter, every other character that is not
\* printable its code (\x0c, \x01, \u3000).
EscapeChar(c, q) ==
    CASE c = "\\" -> <<"\\", "\\">>
      [] c = q -> << "\\", q >>
      [] c = "\n" -> <<"\\", "n">>
      [] c = "\t" -> <<"\\", "t">>
      [] c = "\r" -> <<"\\", "r">>
      [] c = "\f" -> <<"\\", "x", "0", "c">>
      [] c = "U0001" -> <<"\\", "x", "0", "1">>
      [] c = "U3000" -> <<"\\", "u", "3", "0", "0", "0">>
      [] OTHER -> << c >>

\* repr(s) of a str: in double quotes when it holds a single quote and no
\* double quote, in single quotes otherwise.
ReprStr(s) ==
    LET q == IF (\E i \in 1..Len(s) : s[i] = "'") /\ (\A i \in 1..Len(s) : s[i] # "\"")
             THEN "\"" ELSE "'"
    IN << q >> \o Concat([i \in 1..Len(s) |-> EscapeChar(s[i], q)]) \o << q >>

RECURSIVE Repr(_)
\* repr(v) for strs, ints, None, lists and dicts with str keys; the text
\* pandas prints for a DataFrame is kept abstract as <DataFrame>.
Repr(v) ==
    CASE v.k = "str" -> ReprStr(v.s)
      [] v.k = "int" -> IntStr(v.n)
      [] v.k = "none" -> NONE_STR
      [] v.k = "list" ->
           << "[" >> \o Join(<<",", " ">>, [i \in 1..Len(v.items) |-> Repr(v.items[i])])
           \o << "]" >>
      [] v.k = "dict" ->
           << "{" >>
           \o Join(<<",", " ">>,
                   [i \in 1..Len(v.items) |->
                      ReprStr(v.keys[i]) \o << ":", " " >> \o Repr(v.items[i])])
           \o << "}" >>
      [] OTHER -> <<"<", "D", "a", "t", "a", "F", "r", "a", "m", "e", ">">>

\* str(v)
Str(v) == IF v.k = "str" THEN v.s ELSE Repr(v)

\* Python truth value of v.
IsTruthy(v) ==
    CASE v.k = "str" -> v.s # <<>>
      [] v.k = "int" -> v.n # 0
      [] v.k = "none" -> FALSE
      [] v.k \in {"list", "dict"} -> v.items # <<>>
      [] OTHER -> TRUE

\* sanitize_text for an argument of any type: a falsy value or one that is
\* no str is returned as str(text), None as ''.
\* The truth value of a DataFrame raises ValueError.
SanitizeTextValue(v, basic_sanitization, redact_numbers) ==
    IF v.k = "df" THEN PyRaise
    ELSE IF ~IsTruthy(v) \/ v.k # "str"
    THEN IF v.k = "none" THEN PyStr(<<>>) ELSE PyStr(Str(v))
    ELSE PyStr(sanitize_text(v.s, basic_sanitization, redact_numbers))

\* sanitize_dataframe for a DataFrame whose columns have dtype object: every
\* cell becomes sanitize_text(str(x)); a duplicated label makes
\* sanitized_df[column] a DataFrame, which has no dtype.
SanitizeFrame(df, basic_sanitization, redact_numbers) ==
    IF DfEmpty(df) THEN PyFrame(df)
    ELSE IF HasDuplicates(df.columns) THEN PyRaise
    ELSE PyFrame([df EXCEPT !.rows =
            [r \in 1..Len(df.rows) |->
               [c \in 1..Len(df.rows[r]) |->
                  StrCell(sanitize_text(CellStr(df.rows[r][c]),
                                        basic_sanitization, redact_numbers))]]])

\* sanitize_dataframe for an argument of any type: None is returned, a
\* value without the attribute empty raises.
sanitize_dataframe(v, basic_sanitization, redact_numbers) ==
    CASE v.k = "none" -> v
      [] v.k = "df" -> SanitizeFrame(v.df, basic_sanitization, redact_numbers)
      [] OTHER -> PyRaise

\* A list holding the exception marker is the exception.
Raising(items) == \E i \in 1..Len(items) : items[i].k = "raise"

\* The list a comprehension builds, unless one of its calls raised.
ListOf(out) == IF Raising(out) THEN PyRaise ELSE PyList(out)

\* The dict the loop over data.items() builds, unless a call raised.
DictOf(keys, out) == IF Raising(out) THEN PyRaise ELSE PyDict(keys, out)

RECURSIVE sanitize_extracted_data(_, _, _)
sanitize_extracted_data(data, basic_sanitization, redact_numbers) ==
    CASE data.k = "str" ->
           PyStr(sanitize_text(data.s, basic_sanitization, redact_numbers))
      [] data.k = "list" ->
           IF data.items # <<>> /\ data.items[1].k = "str"
           THEN ListOf([i \in 1..Len(data.items) |->
                          SanitizeTextValue(data.items[i], basic_sanitization,
                                            redact_numbers)])
           ELSE IF data.items # <<>> /\ data.items[1].k = "df"
           THEN ListOf([i \in 1..Len(data.items) |->
                          sanitize_dataframe(data.items[i], basic_sanitization,
                                             redact_numbers)])
           ELSE data
      [] data.k = "dict" ->
           DictOf(data.keys,
                  [i \in 1..Len(data.items) |->
                     sanitize_extracted_data(data.items[i], basic_sanitization,
                                             redact_numbers)])
      [] OTHER -> data

(***************************************************************************)
(* ExcelConverter (excel_converter.py)                                     *)
(*                                                                         *)
(* The data handed to convert_to_excel is a Python value (PyValue): a str, *)
(* a list of str, a list of DataFrames, the dict with the keys text and    *)
(* tables, or any other value.  A workbook is the sequence of its sheets;  *)
(* a sheet is the title passed to create_sheet and the values written to   *)
(* its column A (for a table sheet, the header and the rows of the grid).  *)
(***************************************************************************)
EXTRACTED_TEXT == <<"E", "x", "t", "r", "a", "c", "t", "e", "d", " ", "T", "e", "x", "t">>

SUMMARY == <<"S", "u", "m", "m", "a", "r", "y">>

ERROR == <<"E", "r", "r", "o", "r">>

TABLE_ == <<"T", "a", "b", "l", "e", "_">>

_PAGE_ == <<"_", "P", "a", "g", "e", "_">>

\* The characters of the class [\\/*?:\[\]].
InvalidTitleChars == {"\\", "/", "*", "?", ":", "[", "]"}

\* f"{value}" of an attrs value.
Format(v) == IF v.t = "int" THEN IntStr(v.n) ELSE v.s

\* The keys of the dict the handler builds for the method Both.
TEXT_KEY == <<"t", "e", "x", "t">>

TABLES_KEY == <<"t", "a", "b", "l", "e", "s">>

\* hasattr(df, 'attrs') and 'page' in df.attrs
HasPage(df) == df.k = "df" /\ df.df.page.t # "absent"

\* Mutant: the name is not cut to 31 characters.
SheetNameUntruncated(i, df) ==
    LET sheet_name == IF HasPage(df)
                      THEN TABLE_ \o IntStr(i + 1) \o _PAGE_ \o Format(df.df.page)
                      ELSE TABLE_ \o IntStr(i + 1)
    IN SelectSeq(sheet_name, LAMBDA c : c \notin InvalidTitleChars)

\* The title _add_table_sheets passes to create_sheet for the 0-based i.
SheetName(i, df) ==
    LET sheet_name == IF HasPage(df)
                      THEN TABLE_ \o IntStr(i + 1) \o _PAGE_ \o Format(df.df.page)
                      ELSE TABLE_ \o IntStr(i + 1)
        stripped == SelectSeq(sheet_name, LAMBDA c : c \notin InvalidTitleChars)
    IN SubSeq(stripped, 1, Min2(31, Len(stripped)))

\* The non-blank paragraphs of a text, stripped: one row each.
ParagraphRows(text) ==
    LET paragraphs == SplitChar(text, "\n")
        stripped == [k \in 1..Len(paragraphs) |-> Strip(paragraphs[k])]
    IN SelectSeq(stripped, LAMBDA p : p # <<>>)

\* A character openpyxl refuses in a cell value (ILLEGAL_CHARACTERS_RE,
\* [\000-\010]|[\013-\014]|[\016-\037]: the control characters other than
\* tab, newline and carriage return); "U0001" stands for '\x01', "\f" is
\* the form feed '\x0c'.
IllegalCellChars == {"U0001", "\f"}

\* Assigning the str value to a cell raises IllegalCharacterError.
CellRaises(value) == \E k \in 1..Len(value) : value[k] \in IllegalCellChars

\* str(e) of that IllegalCharacterError.
IllegalCharacterMessage(value) ==
    value \o <<" ", "c", "a", "n", "n", "o", "t", " ", "b", "e", " ", "u", "s", "e", "d", " ", "i", "n", " ", "w", "o", "r", "k", "s", "h", "e", "e", "t", "s", ".">>

\* type(v).__name__
TypeName(v) ==
    CASE v.k = "str" -> <<"s", "t", "r">>
      [] v.k = "int" -> <<"i", "n", "t">>
      [] v.k = "none" -> <<"N", "o", "n", "e", "T", "y", "p", "e">>
      [] v.k = "list" -> <<"l", "i", "s", "t">>
      [] v.k = "dict" -> <<"d", "i", "c", "t">>
      [] OTHER -> <<"D", "a", "t", "a", "F", "r", "a", "m", "e">>

\* str(e) of the AttributeError for v.attr, an attribute v does not have.
NoAttribute(v, attr) ==
    << "'" >> \o TypeName(v) \o <<"'", " ", "o", "b", "j", "e", "c", "t", " ", "h", "a", "s", " ", "n", "o", " ", "a", "t", "t", "r", "i", "b", "u", "t", "e", " ", "'">> \o attr \o << "'" >>

\* str(e) of the TypeError of enumerate(v) for a v that cannot be iterated.
NotIterable(v) ==
    << "'" >> \o TypeName(v) \o <<"'", " ", "o", "b", "j", "e", "c", "t", " ", "i", "s", " ", "n", "o", "t", " ", "i", "t", "e", "r", "a", "b", "l", "e">>

\* str(e) of the ValueError pandas raises for the truth value of a DataFrame.
AMBIGUOUS_TRUTH == <<"T", "h", "e", " ", "t", "r", "u", "t", "h", " ", "v", "a", "l", "u", "e", " ", "o", "f", " ", "a", " ", "D", "a", "t", "a", "F", "r", "a", "m", "e", " ", "i", "s", " ", "a", "m", "b", "i", "g", "u", "o", "u", "s", ".", " ", "U", "s", "e", " ", "a", ".", "e", "m", "p", "t", "y", ",", " ", "a", ".", "b", "o", "o", "l", "(", ")", ",", " ", "a", ".", "i", "t", "e", "m", "(", ")", ",", " ", "a", ".", "a", "n", "y", "(", ")", " ", "o", "r", " ", "a", ".", "a", "l", "l", "(", ")", ".">>

\* The 1-based position of the first of the values whose assignment to a
\* cell raises, or -1.
FirstRefused(values) ==
    LeastOf({k \in 1..Len(values) : CellRaises(values[k])})

\* The values assigned before the first one that raises: assignments are made
\* one by one and the exception leaves at the refused value.
AcceptedPrefix(values) ==
    IF FirstRefused(values) = -1 THEN values
    ELSE SubSeq(values, 1, FirstRefused(values) - 1)

\* The outcome of writing the values to cells of the sheet just appended to
\* wb: the first refused value raises.
WriteCells(wb, values) ==
    IF FirstRefused(values) = -1 THEN [wb |-> wb, raised |-> FALSE, error |-> <<>>]
    ELSE [wb |-> wb, raised |-> TRUE,
          error |-> IllegalCharacterMessage(values[FirstRefused(values)])]

RECURSIVE PagesRows(_, _, _)
\* The multi-page branch of _add_text_sheet from the 0-based page i on,
\* rows being the rows written so far: a label row "Page i+1:", the page's
\* paragraphs, one blank row.  An element without split() raises
\* AttributeError after its label row, a paragraph with a refused character
\* IllegalCharacterError after the paragraphs before it.
PagesRows(text_data, i, rows) ==
    IF i >= Len(text_data) THEN [rows |-> rows, raised |-> FALSE, error |-> <<>>]
    ELSE LET label == <<"P", "a", "g", "e", " ">> \o IntStr(i + 1) \o << ":" >>
             page_text == text_data[i + 1]
         IN IF page_text.k # "str"
            THEN [rows |-> Append(rows, label), raised |-> TRUE,
                  error |-> NoAttribute(page_text, <<"s", "p", "l", "i", "t">>)]
            ELSE IF FirstRefused(ParagraphRows(page_text.s)) # -1
            THEN [rows |-> Append(rows, label)
                           \o AcceptedPrefix(ParagraphRows(page_text.s)),
                  raised |-> TRUE,
                  error |-> IllegalCharacterMessage(
                                ParagraphRows(page_text.s)[
                                    FirstRefused(ParagraphRows(page_text.s))])]
            ELSE PagesRows(text_data, i + 1,
                           rows \o << label >> \o ParagraphRows(page_text.s)
                           \o << <<>> >>)

\* The sheet _add_text_sheet creates, with the rows written below A1.
TextSheet(filename, rows) ==
    [title |-> EXTRACTED_TEXT, filename |-> filename, message |-> <<>>,
     rows |-> rows]

\* The outcome of the multi-page branch p for the sheet appended to workbook.
AfterPages(workbook, filename, p) ==
    [wb |-> Append(workbook, TextSheet(filename, p.rows)), raised |-> p.raised,
     error |-> p.error]

\* _add_text_sheet: the sheets after the call, whether it raised and the
\* str of the exception.  The sheet is created first, then A1 is written
\* with the filename, then the paragraphs one by one up to the first that is
\* refused; a value that is no list and has no split() (None, an int, a
\* dict, a DataFrame) raises AttributeError.
_add_text_sheet(workbook, text_data, filename) ==
    LET header == <<"T", "e", "x", "t", " ", "E", "x", "t", "r", "a", "c", "t", "e", "d", " ", "f", "r", "o", "m", ":", " ">> \o filename
    IN IF CellRaises(header)
       THEN WriteCells(Append(workbook, TextSheet(filename, <<>>)), << header >>)
       ELSE CASE text_data.k = "list" ->
                   AfterPages(workbook, filename, PagesRows(text_data.items, 0, <<>>))
              [] text_data.k = "str" ->
                   WriteCells(Append(workbook,
                                     TextSheet(filename,
                                               AcceptedPrefix(ParagraphRows(text_data.s)))),
                              ParagraphRows(text_data.s))
              [] OTHER ->
                   [wb |-> Append(workbook, TextSheet(filename, <<>>)),
                    raised |-> TRUE, error |-> NoAttribute(text_data, <<"s", "p", "l", "i", "t">>)]

\* _add_summary_sheet: A3 is written with the filename, A6 with the message.
_add_summary_sheet(workbook, message, filename) ==
    WriteCells(Append(workbook, [title |-> SUMMARY, filename |-> filename,
                                 message |-> message, rows |-> <<>>]),
               << <<"O", "r", "i", "g", "i", "n", "a", "l", " ", "F", "i", "l", "e", ":", " ">> \o filename,
                  <<"S", "t", "a", "t", "u", "s", ":", " ">> \o message >>)

\* _add_error_sheet: A3 is written with the filename, A7 with the message.
_add_error_sheet(workbook, error_message, filename) ==
    WriteCells(Append(workbook, [title |-> ERROR, filename |-> filename,
                                 message |-> error_message, rows |-> <<>>]),
               << <<"F", "i", "l", "e", ":", " ">> \o filename, error_message >>)

NO_TABLES_FOUND == <<"N", "o", " ", "t", "a", "b", "l", "e", "s", " ", "f", "o", "u", "n", "d", " ", "i", "n", " ", "P", "D", "F">>

NO_DATA_EXTRACTED == <<"N", "o", " ", "d", "a", "t", "a", " ", "e", "x", "t", "r", "a", "c", "t", "e", "d">>

\* The values of the cells of a DataFrame that ws.cell assigns: a cell that
\* is None is not assigned.
AssignedCells(rows) ==
    Concat([r \in 1..Len(rows) |->
              LET kept == SelectSeq(rows[r], LAMBDA c : ~c.none)
              IN [c \in 1..Len(kept) |-> kept[c].s]])

\* The values _add_table_sheets writes for the element df of the 0-based
\* index i, up to the point where dataframe_to_rows is called on a value
\* that is no DataFrame: A1 with the filename, A2 with attrs['page'] when
\* the DataFrame has it, then the header row and the rows of
\* dataframe_to_rows.
TableCellValues(i, df, filename) ==
    << <<"T", "a", "b", "l", "e", " ">> \o IntStr(i + 1) \o <<" ", "f", "r", "o", "m", ":", " ">> \o filename >>
    \o (IF HasPage(df) THEN << <<"S", "o", "u", "r", "c", "e", ":", " ", "P", "a", "g", "e", " ">> \o Format(df.df.page) >> ELSE <<>>)
    \o (IF df.k = "df" THEN df.df.columns \o AssignedCells(df.df.rows) ELSE <<>>)

\* The values of the cells of one row of a DataFrame, '' standing for a
\* cell that is None and is not assigned.
RowValues(row) == [c \in 1..Len(row) |-> IF row[c].none THEN <<>> ELSE row[c].s]

RECURSIVE WrittenRows(_)
\* The rows of dataframe_to_rows written cell by cell: every row before the
\* one with a refused value, and of that row the cells before it.
WrittenRows(rows) ==
    IF rows = <<>> THEN <<>>
    ELSE IF FirstRefused(RowValues(Head(rows))) = -1
    THEN << Head(rows) >> \o WrittenRows(Tail(rows))
    ELSE IF FirstRefused(RowValues(Head(rows))) = 1 THEN <<>>
    ELSE << SubSeq(Head(rows), 1, FirstRefused(RowValues(Head(rows))) - 1) >>

\* The grid written for the DataFrame df: nothing when A1 or A2 is refused,
\* the labels before a refused label, else the header row and the rows
\* written.
WrittenGrid(i, df, filename) ==
    IF FirstRefused(SubSeq(TableCellValues(i, df, filename), 1,
                           IF HasPage(df) THEN 2 ELSE 1)) # -1
    THEN <<>>
    ELSE IF FirstRefused(df.df.columns) = 1 THEN <<>>
    ELSE IF FirstRefused(df.df.columns) # -1
    THEN << AcceptedPrefix(df.df.columns) >>
    ELSE << df.df.columns >> \o WrittenRows(df.df.rows)

\* The sheet _add_table_sheets creates for the element df, with the grid
\* written to it.
TableSheet(i, df, filename) ==
    [title |-> SheetName(i, df), filename |-> filename, message |-> <<>>,
     rows |-> IF df.k = "df" THEN WrittenGrid(i, df, filename) ELSE <<>>]

RECURSIVE TableSheets(_, _, _, _)
\* The loop of _add_table_sheets over the elements from the 0-based i on; it
\* ends at the first sheet with a cell that raises, or with the
\* AttributeError of dataframe_to_rows for an element without columns.
TableSheets(workbook, tables, i, filename) ==
    IF i >= Len(tables) THEN [wb |-> workbook, raised |-> FALSE, error |-> <<>>]
    ELSE IF FirstRefused(TableCellValues(i, tables[i + 1], filename)) # -1
    THEN WriteCells(Append(workbook, TableSheet(i, tables[i + 1], filename)),
                    TableCellValues(i, tables[i + 1], filename))
    ELSE IF tables[i + 1].k # "df"
    THEN [wb |-> Append(workbook, TableSheet(i, tables[i + 1], filename)),
          raised |-> TRUE, error |-> NoAttribute(tables[i + 1], <<"c", "o", "l", "u", "m", "n", "s">>)]
    ELSE TableSheets(Append(workbook, TableSheet(i, tables[i + 1], filename)),
                     tables, i + 1, filename)

\* The elements enumerate(v) yields: the items of a list, the characters of
\* a str, the keys of a dict.
Elements(v) ==
    CASE v.k = "list" -> v.items
      [] v.k = "str" -> [i \in 1..Len(v.s) |-> PyStr(<< v.s[i] >>)]
      [] v.k = "dict" -> [i \in 1..Len(v.keys) |-> PyStr(v.keys[i])]
      [] OTHER -> <<>>

\* _add_table_sheets: the truth value of a DataFrame raises; a falsy value
\* gets the summary sheet; a value that cannot be iterated raises; every
\* element of any other value gets a sheet.
_add_table_sheets(workbook, tables_data, filename) ==
    IF tables_data.k = "df"
    THEN [wb |-> workbook, raised |-> TRUE, error |-> AMBIGUOUS_TRUTH]
    ELSE IF ~IsTruthy(tables_data)
    THEN _add_summary_sheet(workbook, NO_TABLES_FOUND, filename)
    ELSE IF tables_data.k = "int"
    THEN [wb |-> workbook, raised |-> TRUE, error |-> NotIterable(tables_data)]
    ELSE TableSheets(workbook, Elements(tables_data), 0, filename)

\* data.get(key)
DictGet(data, key) ==
    IF \E i \in 1..Len(data.keys) : data.keys[i] = key
    THEN data.items[CHOOSE i \in 1..Len(data.keys) : data.keys[i] = key]
    ELSE PyNone

\* if data.get("text"): self._add_text_sheet(wb, data["text"], ...)
AddDictText(text, filename) ==
    IF text.k = "df"
    THEN [wb |-> <<>>, raised |-> TRUE, error |-> AMBIGUOUS_TRUTH]
    ELSE IF IsTruthy(text) THEN _add_text_sheet(<<>>, text, filename)
    ELSE [wb |-> <<>>, raised |-> FALSE, error |-> <<>>]

\* if data.get("tables"): self._add_table_sheets(wb, data["tables"], ...),
\* after the text part ended as t.
AddDictTables(t, tables, filename) ==
    IF t.raised THEN t
    ELSE IF tables.k = "df"
    THEN [wb |-> t.wb, raised |-> TRUE, error |-> AMBIGUOUS_TRUTH]
    ELSE IF IsTruthy(tables) THEN _add_table_sheets(t.wb, tables, filename)
    ELSE t

\* The try block of convert_to_excel up to the last sheet-building call.
BuildSheets(data, extraction_method, filename) ==
    CASE extraction_method = "Text Extraction" ->
           _add_text_sheet(<<>>, data, filename)
      [] extraction_method = "Table Detection" ->
           _add_table_sheets(<<>>, data, filename)
      [] OTHER ->
           IF data.k = "dict"
           THEN AddDictTables(AddDictText(DictGet(data, TEXT_KEY), filename),
                              DictGet(data, TABLES_KEY), filename)
           ELSE _add_text_sheet(<<>>, data, filename)

\* The rest of convert_to_excel after the sheet-building calls b: the
\* summary sheet for an empty workbook, the save, and the except clause,
\* whose own exception leaves convert_to_excel.
FinishWorkbook(b, filename) ==
    LET s == IF ~b.raised /\ b.wb = <<>>
             THEN _add_summary_sheet(<<>>, NO_DATA_EXTRACTED, filename)
             ELSE b
        e == _add_error_sheet(<<>>, s.error, filename)
    IN IF ~s.raised THEN [kind |-> "workbook", wb |-> s.wb, error |-> <<>>]
       ELSE IF ~e.raised THEN [kind |-> "workbook", wb |-> e.wb, error |-> <<>>]
       ELSE [kind |-> "raised", wb |-> <<>>, error |-> e.error]

\* convert_to_excel: the workbook it returns or the exception leaving it.
convert_to_excel(data, extraction_method, filename) ==
    FinishWorkbook(BuildSheets(data, extraction_method, filename), filename)

(***************************************************************************)
(* Inputs of the checks                                                    *)
(***************************************************************************)
\* The most pages of a document, tokens of a sanitizer input, passes of the
\* sanitizer over one text, DataFrames handed to the exporter, and items of
\* a list handed to sanitize_extracted_data.
MaxPages == 2

MaxTokens == 2

MaxPasses == 2

MaxTables == 2

MaxItems == 2

\* All sequences over S of length at most n.
RECURSIVE SeqsUpTo(_, _)
SeqsUpTo(S, n) ==
    IF n = 0 THEN { <<>> }
    ELSE LET shorter == SeqsUpTo(S, n - 1)
         IN shorter \cup { Append(q, x) : q \in shorter, x \in S }

\* 'Ab c\n d\n\nE f'
TextPlain == <<"A", "b", " ", "c", "\n", " ", "d", "\n", "\n", "E", " ", "f">>

\* 'a  b  c\nd  e'
TextGrid == <<"a", " ", " ", "b", " ", " ", "c", "\n", "d", " ", " ", "e">>

\* 't'
TextShort == <<"t">>

\* 'u v'
TextWords == <<"u", " ", "v">>

\* [['h1', 'h2'], ['1', '2'], ['', ''], ['3', '4']]
TableC8 ==
    << <<StrCell(<<"h", "1">>), StrCell(<<"h", "2">>)>>,
       <<StrCell(<<"1">>), StrCell(<<"2">>)>>,
       <<StrCell(<<>>), StrCell(<<>>)>>,
       <<StrCell(<<"3">>), StrCell(<<"4">>)>> >>

\* [[None, ' h '], ['x', None], [None, None], [' ', 'None']]
TableMixed ==
    << <<NoneCell, StrCell(<<" ", "h", " ">>)>>,
       <<StrCell(<<"x">>), NoneCell>>,
       <<NoneCell, NoneCell>>,
       <<StrCell(<<" ">>), StrCell(<<"N", "o", "n", "e">>)>> >>

\* [['k']]
TableHeaderOnly ==
    << <<StrCell(<<"k">>)>> >>

\* [['a', 'b'], ['1'], ['2', '3']]
TableRagged ==
    << <<StrCell(<<"a">>), StrCell(<<"b">>)>>,
       <<StrCell(<<"1">>)>>,
       <<StrCell(<<"2">>), StrCell(<<"3">>)>> >>

\* [['a', 'a '], ['1', '2']]
TableDuplicate ==
    << <<StrCell(<<"a">>), StrCell(<<"a", " ">>)>>,
       <<StrCell(<<"1">>), StrCell(<<"2">>)>> >>

Page(text, tables) == [text |-> text, tables |-> tables]

\* The pages the parser may yield: without text or tables, with text only,
\* with text laid out in columns, and with raw tables.
PageSamples ==
    { Page(<<>>, <<>>),
      Page(TextPlain, <<>>),
      Page(TextGrid, <<>>),
      Page(TextShort, << TableC8 >>),
      Page(TextWords, << TableMixed, TableHeaderOnly >>),
      Page(TextShort, << TableRagged >>),
      Page(TextShort, << TableDuplicate >>) }

\* n times the character c.
Repeat(c, n) == [i \in 1..n |-> c]

\* A line of n characters 'a', then the line 'b'.
TextBlockOf(n) == Repeat("a", n) \o << "\n", "b" >>

\* Page texts for the whitespace, paragraph and fallback rules:
\* '中\u3000文  x\ty'; a paragraph of 99, 100 and 101 characters before the
\* line 'b'; 'ab\nÉc', 'ab\n中c', 'ab\nCd', 'ab\n\ncd';
\* 'a,b  c,d\ne,f  g,h', 'a, b\nc, d', 'a\tb, c\nd\te', 'a | b, c\nd | e',
\* 'a  b\nx\nc  d', 'a  b\nx'.
LayoutTexts ==
    { <<"ZH", "U3000", "ZH", " ", " ", "x", "\t", "y">>,
      TextBlockOf(99), TextBlockOf(100), TextBlockOf(101),
      <<"a", "b", "\n", "U00C9", "c">>,
      <<"a", "b", "\n", "ZH", "c">>,
      <<"a", "b", "\n", "C", "d">>,
      <<"a", "b", "\n", "\n", "c", "d">>,
      <<"a", ",", "b", " ", " ", "c", ",", "d", "\n", "e", ",", "f", " ", " ", "g", ",", "h">>,
      <<"a", ",", " ", "b", "\n", "c", ",", " ", "d">>,
      <<"a", "\t", "b", ",", " ", "c", "\n", "d", "\t", "e">>,
      <<"a", " ", "|", " ", "b", ",", " ", "c", "\n", "d", " ", "|", " ", "e">>,
      <<"a", " ", " ", "b", "\n", "x", "\n", "c", " ", " ", "d">>,
      <<"a", " ", " ", "b", "\n", "x">>,
      TextGrid }

\* Documents that pass the validation, their pages carrying such texts and
\* no table of the primary mechanism.
LayoutDocuments ==
    [ size : {1024}, header : {TRUE}, eof : BOOLEAN, opens : {TRUE},
      pages : SeqsUpTo({ Page(t, <<>>) : t \in LayoutTexts }, MaxPages) ]

\* Lengths in bytes around the limit; the last is 50.25 MB.
SizeSamples ==
    { 1024, max_file_size, max_file_size + 1, max_file_size + 256 * 1024 }

\* Byte sequences in which pdfplumber.open finds a document with the given
\* pages, and byte sequences in which it finds none, each with and without
\* the signature and the EOF marker.
Documents ==
    [ size : SizeSamples, header : BOOLEAN, eof : BOOLEAN, opens : {TRUE},
      pages : SeqsUpTo(PageSamples, MaxPages) ]
    \cup [ size : SizeSamples, header : BOOLEAN, eof : BOOLEAN,
           opens : {FALSE}, pages : { <<>> } ]

TextOptions ==
    [ preserve_formatting : BOOLEAN, split_by_pages : BOOLEAN,
      merge_text_blocks : BOOLEAN, remove_empty_rows : {TRUE} ]

TableOptions ==
    [ preserve_formatting : {TRUE}, split_by_pages : {FALSE},
      merge_text_blocks : {FALSE}, remove_empty_rows : BOOLEAN ]

\* ['a@b.com', '1234567890', ' ', 'x', '123456', '1234', '-', '中']
Tokens ==
    { <<"a", "@", "b", ".", "c", "o", "m">>,
      <<"1", "2", "3", "4", "5", "6", "7", "8", "9", "0">>,
      <<" ">>,
      <<"x">>,
      <<"1", "2", "3", "4", "5", "6">>,
      <<"1", "2", "3", "4">>,
      <<"-">>,
      <<"ZH">> }

\* Texts made of at most MaxTokens tokens.
TokenTexts == { Concat(q) : q \in SeqsUpTo(Tokens, MaxTokens) }

\* ['a@b.com', '+a@b.co', '+@b.com', 'a.b@c-d.uk', 'A_1%x@sub.b.org']
EmailSamples ==
    { <<"a", "@", "b", ".", "c", "o", "m">>,
      <<"+", "a", "@", "b", ".", "c", "o">>,
      <<"+", "@", "b", ".", "c", "o", "m">>,
      <<"a", ".", "b", "@", "c", "-", "d", ".", "u", "k">>,
      <<"A", "_", "1", "%", "x", "@", "s", "u", "b", ".", "b", ".", "o", "r", "g">> }

\* An address between "contact " or nothing and " now" or nothing.
EmailTexts ==
    { pre \o e \o post : pre \in { <<>>, <<"c", "o", "n", "t", "a", "c", "t", " ">> },
                          e \in EmailSamples,
                          post \in { <<>>, <<" ", "n", "o", "w">> } }

\* ['a@b.com a@b.com1', 'a@b.com_ a@b.com']: an address between whitespace
\* and the same address with a digit or an underscore right after it.
RepeatedAddressTexts ==
    { <<"a", "@", "b", ".", "c", "o", "m", " ", "a", "@", "b", ".", "c", "o", "m", "1">>,
      <<"a", "@", "b", ".", "c", "o", "m", "_", " ", "a", "@", "b", ".", "c", "o", "m">> }

\* An SSN, three card numbers, three Chinese ID numbers.
NumberSamples ==
    { <<"1", "2", "3", "-", "4", "5", "-", "6", "7", "8", "9">>,
      <<"4", "1", "1", "1", "1", "1", "1", "1", "1", "1", "1", "1", "1", "1", "1", "1">>,
      <<"4", "1", "1", "1", " ", "1", "1", "1", "1", " ", "1", "1", "1", "1", " ", "1", "1", "1", "1">>,
      <<"4", "1", "1", "1", "-", "1", "1", "1", "1", "-", "1", "1", "1", "1", "-", "1", "1", "1", "1">>,
      <<"1", "2", "3", "4", "5", "6", "7", "8", "9", "0", "1", "2", "3", "4", "5">>,
      <<"1", "2", "3", "4", "5", "6", "7", "8", "9", "0", "1", "2", "3", "4", "5", "6", "7", "X">>,
      <<"1", "2", "3", "4", "5", "6", "7", "8", "9", "0", "1", "2", "3", "4", "5", "6", "7", "8">> }

\* A number alone or after "id ".
NumberTexts == { pre \o n : pre \in { <<>>, <<"i", "d", " ">> }, n \in NumberSamples }

\* Runs of 11, 22 and 13 digits between other characters:
\* 'a_12345678901_b', 'v1234567890123456789012z', '(123)4567890123456.'
DigitRunTexts ==
    { <<"a", "_", "1", "2", "3", "4", "5", "6", "7", "8", "9", "0", "1", "_", "b">>,
      <<"v", "1", "2", "3", "4", "5", "6", "7", "8", "9", "0", "1", "2", "3", "4",
        "5", "6", "7", "8", "9", "0", "1", "2", "z">>,
      <<"(", "1", "2", "3", ")", "4", "5", "6", "7", "8", "9", "0", "1", "2", "3",
        "4", "5", "6", ".">> }

SanitizerInputs ==
    TokenTexts \cup EmailTexts \cup RepeatedAddressTexts \cup NumberTexts
    \cup DigitRunTexts

SanitizerFlags == [ basic_sanitization : BOOLEAN, redact_numbers : BOOLEAN ]

\* A one-cell DataFrame holding 'a@b.com', and one with two columns 'h'.
FrameEmail ==
    [ columns |-> << <<"h">> >>,
      rows |-> << << StrCell(<<"a", "@", "b", ".", "c", "o", "m">>) >> >>,
      page |-> IntVal(1), table |-> IntVal(1) ]

FrameTwice ==
    [ columns |-> << <<"h">>, <<"h">> >>,
      rows |-> << << StrCell(<<"1", "2", "3", "4">>), StrCell(<<"x">>) >> >>,
      page |-> IntVal(1), table |-> IntVal(1) ]

\* A DataFrame whose column is named 'a@b.com', holding '1234567890' and None.
FrameHeaderEmail ==
    [ columns |-> << <<"a", "@", "b", ".", "c", "o", "m">> >>,
      rows |-> << << StrCell(<<"1", "2", "3", "4", "5", "6", "7", "8", "9", "0">>) >>,
                  << NoneCell >> >>,
      page |-> IntVal(2), table |-> IntVal(1) ]

\* 'a@b.com', 'x', 1234, None, ['a@b.com'], ['a\n\u3000'],
\* {'text': 'a@b.com'} and the three DataFrames.
ValueSamples ==
    { PyStr(<<"a", "@", "b", ".", "c", "o", "m">>), PyStr(<<"x">>), PyInt(1234),
      PyNone, PyList(<< PyStr(<<"a", "@", "b", ".", "c", "o", "m">>) >>),
      PyList(<< PyStr(<<"a", "\n", "U3000">>) >>),
      PyDict(<< <<"t", "e", "x", "t">> >>,
             << PyStr(<<"a", "@", "b", ".", "c", "o", "m">>) >>),
      PyFrame(FrameEmail), PyFrame(FrameTwice), PyFrame(FrameHeaderEmail) }

\* The samples that are no DataFrame, the lists of at most MaxItems samples,
\* and the dicts {'text': v, 'tables': [w]} of two samples, v no DataFrame.
ExtractedDataSamples ==
    { v \in ValueSamples : v.k # "df" }
    \cup { PyList(q) : q \in SeqsUpTo(ValueSamples, MaxItems) }
    \cup { PyDict(<< <<"t", "e", "x", "t">>, <<"t", "a", "b", "l", "e", "s">> >>,
                  << v, PyList(<< w >>) >>) :
             v \in { u \in ValueSamples : u.k # "df" }, w \in ValueSamples }

FILENAME == <<"a", ".", "p", "d", "f">>

\* 'a.pdf' and 'a\x01.pdf'
FilenameSamples == { FILENAME, <<"a", "U0001", ".", "p", "d", "f">> }

\* A one-cell DataFrame with the given attrs['page'].
FrameWithPage(page) ==
    [ columns |-> << <<"h">> >>, rows |-> << << StrCell(<<"v">>) >> >>,
      page |-> page, table |-> IntVal(1) ]

\* A DataFrame with a cell that is None, and no attrs.
FrameWithNone ==
    [ columns |-> << <<"h">>, <<"k">> >>,
      rows |-> << << StrCell(<<"v">>), NoneCell >> >>,
      page |-> Absent, table |-> Absent ]

\* A DataFrame whose second row holds 'd\x0c' in its second cell.
FrameRefused ==
    [ columns |-> << <<"h">>, <<"k">> >>,
      rows |-> << << StrCell(<<"a">>), StrCell(<<"b">>) >>,
                  << StrCell(<<"c">>), StrCell(<<"d", "\f">>) >>,
                  << StrCell(<<"e">>), StrCell(<<"f">>) >> >>,
      page |-> IntVal(2), table |-> IntVal(1) ]

\* Page values: 1, 12, absent, '1:2', a str of more than 31 characters with
\* characters no title may hold, '\x01'.
FrameSamples ==
    { FrameWithPage(IntVal(1)), FrameWithPage(IntVal(12)), FrameWithPage(Absent),
      FrameWithPage(StrVal(<<"1", ":", "2">>)),
      FrameWithPage(StrVal(<<"[", "a", "p", "p", "e", "n", "d", "i", "x", "/", "2", "?", "]", "*", "0", "1", "2", "3", "4", "5", "6", "7", "8", "9">>)),
      FrameWithPage(StrVal(<<"U0001">>)),
      FrameWithNone, FrameRefused }

\* data, a str
TextData(text) == PyStr(text)

\* data, a list of str
PagesData(pages) == PyList([i \in 1..Len(pages) |-> PyStr(pages[i])])

\* data, a list of DataFrames
TablesData(tables) == PyList([i \in 1..Len(tables) |-> PyFrame(tables[i])])

\* data, the dict of the method Both
BothData(text, tables) == PyDict(<< TEXT_KEY, TABLES_KEY >>, << text, tables >>)

\* '', a text of three paragraphs, [], [''], two pages, 'x\x01', 'x\x0cy',
\* 'a\n\x01\nb', ['p', 'q\n\x01']
TextSamples ==
    { TextData(<<>>), TextData(TextPlain), PagesData(<<>>),
      PagesData(<< <<>> >>), PagesData(<< TextShort, TextPlain >>),
      TextData(<<"x", "U0001">>), TextData(<<"x", "\f", "y">>),
      TextData(<<"a", "\n", "U0001", "\n", "b">>),
      PagesData(<< <<"p">>, <<"q", "\n", "U0001">> >>) }

TableListSamples == { TablesData(q) : q \in SeqsUpTo(FrameSamples, MaxTables) }

\* Values of no shape an extraction returns: None, 1234, 0, {'a': 1}, {},
\* a bare DataFrame, ['t', <DataFrame>], [None], dicts whose text or tables
\* is a DataFrame or an int.
OtherSamples ==
    { PyNone, PyInt(1234), PyInt(0), PyDict(<< <<"a">> >>, << PyInt(1) >>),
      PyDict(<<>>, <<>>), PyFrame(FrameWithPage(IntVal(1))),
      PyList(<< PyStr(TextShort), PyFrame(FrameWithPage(Absent)) >>),
      PyList(<< PyNone >>),
      BothData(PyFrame(FrameWithPage(Absent)), PyList(<<>>)),
      BothData(PyStr(TextShort), PyFrame(FrameWithPage(Absent))),
      BothData(PyStr(<<>>), PyInt(1234)),
      PyDict(<< TABLES_KEY >>, << TablesData(<< FrameWithPage(IntVal(1)) >>) >>) }

ExportData ==
    TextSamples \cup TableListSamples \cup OtherSamples
    \cup { BothData(t, d) : t \in TextSamples, d \in TableListSamples }

ExtractionMethods ==
    { "Text Extraction", "Table Detection", "Both Text and Tables" }

(***************************************************************************)
(* State.  One call of the extractor (pdf, op, opts, pc, parser_calls,     *)
(* result), one text under the sanitizer (original, previous, text, flags, *)
(* passes) and one call of the exporter (data, extraction_method, xpc, wb, *)
(* raised).                                                                *)
(***************************************************************************)
VARIABLES pdf, op, opts, pc, parser_calls, result,
          original, previous, text, flags, passes,
          data, extraction_method, filename, xpc, wb, raised, error,
          extracted_data, sanitized_data, spc,
          stage, calls, excel_file, download, shown_error

extractor_vars == << pdf, op, opts, pc, parser_calls, result >>

sanitizer_vars == << original, previous, text, flags, passes >>

exporter_vars == << data, extraction_method, filename, xpc, wb, raised, error >>

vars == << pdf, op, opts, pc, parser_calls, result,
           original, previous, text, flags, passes,
           data, extraction_method, filename, xpc, wb, raised, error,
           extracted_data, sanitized_data, spc,
           stage, calls, excel_file, download, shown_error >>

data_vars == << extracted_data, sanitized_data, spc >>

app_vars == << stage, calls, excel_file, download, shown_error >>

Pending == [kind |-> "pending"]

AppIdle ==
    /\ stage = "idle"
    /\ calls = <<>>
    /\ excel_file = <<>>
    /\ download = FALSE
    /\ shown_error = FALSE

DataIdle ==
    /\ extracted_data = PyNone
    /\ sanitized_data = PyNone
    /\ spc = "idle"

ExtractorIdle ==
    /\ pdf = [size |-> 0, header |-> FALSE, eof |-> FALSE, opens |-> FALSE,
              pages |-> <<>>]
    /\ op = "idle"
    /\ opts = [preserve_formatting |-> TRUE, split_by_pages |-> FALSE,
               merge_text_blocks |-> FALSE, remove_empty_rows |-> TRUE]
    /\ pc = "idle"
    /\ parser_calls = 0
    /\ result = Pending

SanitizerIdle ==
    /\ original = <<>>
    /\ previous = <<>>
    /\ text = <<>>
    /\ flags = [basic_sanitization |-> TRUE, redact_numbers |-> FALSE]
    /\ passes = MaxPasses

ExporterIdle ==
    /\ data = PyNone
    /\ extraction_method = "idle"
    /\ filename = <<>>
    /\ xpc = "idle"
    /\ wb = <<>>
    /\ raised = FALSE
    /\ error = <<>>

(***************************************************************************)
(* PDFProcessor.extract_text / extract_tables, in two steps: the security  *)
(* validation, then everything from pdfplumber.open to the return or the   *)
(* re-raise; and get_pdf_info, which opens the document at once.           *)
(***************************************************************************)
\* The options of a call of get_pdf_info, which takes none.
NoOptions ==
    [preserve_formatting |-> TRUE, split_by_pages |-> FALSE,
     merge_text_blocks |-> FALSE, remove_empty_rows |-> TRUE]

InitExtract ==
    /\ pdf \in Documents
    /\ \/ op = "text" /\ opts \in TextOptions
       \/ op = "tables" /\ opts \in TableOptions
       \/ op = "info" /\ opts = NoOptions
    /\ pc = "called"
    /\ parser_calls = 0
    /\ result = Pending
    /\ SanitizerIdle
    /\ ExporterIdle
    /\ DataIdle
    /\ AppIdle

\* self._validate_pdf_security(pdf_bytes); a ValueError it raises reaches
\* the outer except clause and is re-raised wrapped.
Validate ==
    /\ pc = "called"
    /\ op \in {"text", "tables"}
    /\ LET v == _validate_pdf_security(pdf)
       IN IF v.kind = "ok"
          THEN pc' = "validated" /\ result' = result
          ELSE pc' = "done" /\ result' = Raised(op, v)
    /\ UNCHANGED << pdf, op, opts, parser_calls >>
    /\ UNCHANGED << sanitizer_vars, exporter_vars, data_vars, app_vars >>

ExtractText ==
    /\ pc = "validated"
    /\ op = "text"
    /\ parser_calls' = parser_calls + 1
    /\ result' = ExtractTextBody(pdf, opts.preserve_formatting,
                                 opts.split_by_pages, opts.merge_text_blocks)
    /\ pc' = "done"
    /\ UNCHANGED << pdf, op, opts >>
    /\ UNCHANGED << sanitizer_vars, exporter_vars, data_vars, app_vars >>

ExtractTables ==
    /\ pc = "validated"
    /\ op = "tables"
    /\ LET r == ExtractTablesBody(pdf, opts.remove_empty_rows)
       IN /\ parser_calls' = parser_calls + r.parses
          /\ result' = r.res
    /\ pc' = "done"
    /\ UNCHANGED << pdf, op, opts >>
    /\ UNCHANGED << sanitizer_vars, exporter_vars, data_vars, app_vars >>

\* get_pdf_info(pdf_bytes): pdfplumber.open is the first statement; the
\* except clause turns its exception into the dict returned.
GetPdfInfo ==
    /\ pc = "called"
    /\ op = "info"
    /\ parser_calls' = parser_calls + 1
    /\ result' = get_pdf_info(pdf)
    /\ pc' = "done"
    /\ UNCHANGED << pdf, op, opts >>
    /\ UNCHANGED << sanitizer_vars, exporter_vars, data_vars, app_vars >>

NextExtract == Validate \/ ExtractText \/ ExtractTables \/ GetPdfInfo

SpecExtract == InitExtract /\ [][NextExtract]_vars

\* The same calls on documents whose pages carry the layout texts.
InitLayout ==
    /\ pdf \in LayoutDocuments
    /\ \/ op = "text" /\ opts \in TextOptions
       \/ op = "tables" /\ opts \in TableOptions
       \/ op = "info" /\ opts = NoOptions
    /\ pc = "called"
    /\ parser_calls = 0
    /\ result = Pending
    /\ SanitizerIdle
    /\ ExporterIdle
    /\ DataIdle
    /\ AppIdle

SpecLayout == InitLayout /\ [][NextExtract]_vars

(***************************************************************************)
(* DataSanitizer.sanitize_text, applied to a text and again to its own     *)
(* output with the same flags.                                             *)
(***************************************************************************)
InitSanitize ==
    /\ original \in SanitizerInputs
    /\ previous = original
    /\ text = original
    /\ flags \in SanitizerFlags
    /\ passes = 0
    /\ ExtractorIdle
    /\ ExporterIdle
    /\ DataIdle
    /\ AppIdle

SanitizeText ==
    /\ passes < MaxPasses
    /\ previous' = text
    /\ text' = sanitize_text(text, flags.basic_sanitization, flags.redact_numbers)
    /\ passes' = passes + 1
    /\ UNCHANGED << original, flags >>
    /\ UNCHANGED << extractor_vars, exporter_vars, data_vars, app_vars >>

NextSanitize == SanitizeText

SpecSanitize == InitSanitize /\ [][NextSanitize]_vars

(***************************************************************************)
(* DataSanitizer.sanitize_extracted_data, one call.                        *)
(***************************************************************************)
InitSanitizeData ==
    /\ extracted_data \in ExtractedDataSamples
    /\ sanitized_data = PyNone
    /\ spc = "called"
    /\ flags \in SanitizerFlags
    /\ original = <<>>
    /\ previous = <<>>
    /\ text = <<>>
    /\ passes = MaxPasses
    /\ ExtractorIdle
    /\ ExporterIdle
    /\ AppIdle

SanitizeExtractedData ==
    /\ spc = "called"
    /\ sanitized_data' = sanitize_extracted_data(extracted_data,
                              flags.basic_sanitization, flags.redact_numbers)
    /\ spc' = IF sanitized_data'.k = "raise" THEN "raised" ELSE "done"
    /\ UNCHANGED << extracted_data, sanitizer_vars, extractor_vars, exporter_vars, app_vars >>

NextSanitizeData == SanitizeExtractedData

SpecSanitizeData == InitSanitizeData /\ [][NextSanitizeData]_vars

(***************************************************************************)
(* ExcelConverter.convert_to_excel, in two steps: the sheet-building calls *)
(* of the try block, then the summary sheet, the except clause and the     *)
(* save.                                                                   *)
(***************************************************************************)
InitExport ==
    /\ data \in ExportData
    /\ extraction_method \in ExtractionMethods
    /\ filename \in FilenameSamples
    /\ xpc = "called"
    /\ wb = <<>>
    /\ raised = FALSE
    /\ error = <<>>
    /\ ExtractorIdle
    /\ SanitizerIdle
    /\ DataIdle
    /\ AppIdle

AddSheets ==
    /\ xpc = "called"
    /\ LET b == BuildSheets(data, extraction_method, filename)
       IN wb' = b.wb /\ raised' = b.raised /\ error' = b.error
    /\ xpc' = "built"
    /\ UNCHANGED << data, extraction_method, filename >>
    /\ UNCHANGED << extractor_vars, sanitizer_vars, data_vars, app_vars >>

Save ==
    /\ xpc = "built"
    /\ LET f == FinishWorkbook([wb |-> wb, raised |-> raised, error |-> error],
                               filename)
       IN /\ wb' = f.wb
          /\ error' = IF f.kind = "raised" THEN f.error ELSE error
          /\ xpc' = IF f.kind = "raised" THEN "raised" ELSE "saved"
    /\ UNCHANGED << data, extraction_method, filename, raised >>
    /\ UNCHANGED << extractor_vars, sanitizer_vars, data_vars, app_vars >>

NextExport == AddSheets \/ Save

SpecExport == InitExport /\ [][NextExport]_vars

(***************************************************************************)
(* The handler of the Convert button (app.py): the extraction calls of the *)
(* selected method, sanitize_extracted_data when one of the two flags is   *)
(* set, convert_to_excel, then the preview and the download button; every  *)
(* exception reaches the handler's except clause, which shows the error.   *)
(* calls lists the methods of the three components in the order called.    *)
(***************************************************************************)
\* The Python value an extraction call returned.
ReturnedValue(res) ==
    CASE res.kind = "text" -> PyStr(res.text)
      [] res.kind = "pages" -> PyList([i \in 1..Len(res.pages) |-> PyStr(res.pages[i])])
      [] res.kind = "tables" ->
           PyList([i \in 1..Len(res.tables) |-> PyFrame(res.tables[i])])

\* The documents the uploader lets through (lines 93-97: at most 50 MB),
\* with one page: without text, with a table, with text in columns, with
\* columns under a repeated heading, with a table whose labels repeat, with
\* a control character in the text; or without pages.
AppPageSamples ==
    { <<>>,
      << Page(<<>>, <<>>) >>,
      << Page(TextShort, << TableC8 >>) >>,
      << Page(TextGrid, <<>>) >>,
      << Page(<<"a", " ", " ", "a", "\n", "b", " ", " ", "c">>, <<>>) >>,
      << Page(TextShort, << TableDuplicate >>) >>,
      << Page(<<"x", "U0001">>, <<>>) >> }

AppDocuments ==
    [ size : { 1024, max_file_size }, header : BOOLEAN, eof : BOOLEAN,
      opens : {TRUE}, pages : AppPageSamples ]
    \cup [ size : { 1024 }, header : BOOLEAN, eof : BOOLEAN,
           opens : {FALSE}, pages : { <<>> } ]

AppOptions ==
    [ preserve_formatting : {TRUE}, split_by_pages : BOOLEAN,
      merge_text_blocks : {FALSE}, remove_empty_rows : {TRUE} ]

InitConvert ==
    /\ pdf \in AppDocuments
    /\ opts \in AppOptions
    /\ extraction_method \in ExtractionMethods
    /\ flags \in SanitizerFlags
    /\ filename \in FilenameSamples
    /\ stage = "clicked"
    /\ calls = <<>>
    /\ excel_file = <<>>
    /\ download = FALSE
    /\ shown_error = FALSE
    /\ extracted_data = PyNone
    /\ sanitized_data = PyNone /\ spc = "idle"
    /\ op = "idle" /\ pc = "idle" /\ parser_calls = 0 /\ result = Pending
    /\ original = <<>> /\ previous = <<>> /\ text = <<>> /\ passes = MaxPasses
    /\ data = PyNone /\ xpc = "idle" /\ wb = <<>>
    /\ raised = FALSE /\ error = <<>>

app_rest ==
    << pdf, opts, extraction_method, flags, filename, sanitized_data, spc,
       op, pc, parser_calls, result, original, previous, text, passes,
       data, xpc, wb, raised, error >>

\* except Exception as e: st.error(...) (lines 258-267).
ShowError == stage' = "error" /\ shown_error' = TRUE

\* The handler after extract_text returned r or raised.
AfterExtractText(r) ==
    IF r.kind = "error"
    THEN ShowError /\ UNCHANGED extracted_data
    ELSE /\ extracted_data' = ReturnedValue(r)
         /\ stage' = IF extraction_method = "Text Extraction"
                     THEN "extracted" ELSE "text_extracted"
         /\ UNCHANGED shown_error

\* pdf_processor.extract_text(...) of the methods Text Extraction and Both.
AppExtractText ==
    /\ stage = "clicked"
    /\ extraction_method \in {"Text Extraction", "Both Text and Tables"}
    /\ calls' = Append(calls, "extract_text")
    /\ AfterExtractText(extract_text(pdf, opts.preserve_formatting,
                                     opts.split_by_pages,
                                     opts.merge_text_blocks).res)
    /\ UNCHANGED << excel_file, download, app_rest >>

\* The handler after extract_tables returned r or raised.
AfterExtractTables(r) ==
    IF r.kind = "error"
    THEN ShowError /\ UNCHANGED extracted_data
    ELSE /\ extracted_data' =
               IF extraction_method = "Table Detection" THEN ReturnedValue(r)
               ELSE PyDict(<< TEXT_KEY, TABLES_KEY >>,
                           << extracted_data, ReturnedValue(r) >>)
         /\ stage' = "extracted"
         /\ UNCHANGED shown_error

\* pdf_processor.extract_tables(...) of the methods Table Detection and
\* Both, where the dict of text and tables is built after it.
AppExtractTables ==
    /\ \/ stage = "clicked" /\ extraction_method = "Table Detection"
       \/ stage = "text_extracted"
    /\ calls' = Append(calls, "extract_tables")
    /\ AfterExtractTables(extract_tables(pdf, opts.remove_empty_rows).res)
    /\ UNCHANGED << excel_file, download, app_rest >>

\* The handler after sanitize_extracted_data returned v or raised.
AfterSanitize(v) ==
    IF v.k = "raise"
    THEN ShowError /\ UNCHANGED extracted_data
    ELSE extracted_data' = v /\ stage' = "sanitized" /\ UNCHANGED shown_error

\* if sanitize_data or redact_numbers: data_sanitizer.sanitize_extracted_data(...)
AppSanitize ==
    /\ stage = "extracted"
    /\ flags.basic_sanitization \/ flags.redact_numbers
    /\ calls' = Append(calls, "sanitize_extracted_data")
    /\ AfterSanitize(sanitize_extracted_data(extracted_data,
                                             flags.basic_sanitization,
                                             flags.redact_numbers))
    /\ UNCHANGED << excel_file, download, app_rest >>

\* The handler after convert_to_excel returned the workbook f or raised.
AfterExport(f) ==
    IF f.kind = "raised"
    THEN ShowError /\ UNCHANGED excel_file
    ELSE excel_file' = f.wb /\ stage' = "converted" /\ UNCHANGED shown_error

\* excel_converter.convert_to_excel(extracted_data, extraction_method, name)
AppExport ==
    /\ \/ stage = "sanitized"
       \/ stage = "extracted" /\ ~(flags.basic_sanitization \/ flags.redact_numbers)
    /\ calls' = Append(calls, "convert_to_excel")
    /\ AfterExport(convert_to_excel(extracted_data,
                                    extraction_method, filename))
    /\ UNCHANGED << extracted_data, download, app_rest >>

\* The loop `for i, table in enumerate(tables): st.dataframe(...)` raises;
\* it runs for a non-empty list only.  st.dataframe(table) serialises the
\* DataFrame with pyarrow, which raises ValueError (Duplicate column names
\* found) for repeated column labels.
TablePreviewRaises(tables) ==
    /\ tables.k = "list"
    /\ \E i \in 1..Len(tables.items) :
          /\ tables.items[i].k = "df"
          /\ HasDuplicates(tables.items[i].df.columns)

\* The preview of the extracted data (lines 203-237) raises: the text
\* previews show str(...) in a text area, the table previews call
\* st.dataframe on every table.
PreviewRaises(extracted, method) ==
    CASE method = "Text Extraction" -> FALSE
      [] method = "Table Detection" -> TablePreviewRaises(extracted)
      [] OTHER -> /\ extracted.k = "dict"
                  /\ TablePreviewRaises(DictGet(extracted, TABLES_KEY))

\* The handler after the preview: the download button, or the except clause
\* when the preview raised.
AfterPreview(failed) ==
    IF failed
    THEN ShowError /\ UNCHANGED download
    ELSE download' = TRUE /\ stage' = "done" /\ UNCHANGED shown_error

\* The preview and st.download_button(data=excel_file.getvalue(), ...).
AppDownload ==
    /\ stage = "converted"
    /\ AfterPreview(PreviewRaises(extracted_data, extraction_method))
    /\ UNCHANGED << calls, excel_file, extracted_data, app_rest >>

NextConvert ==
    AppExtractText \/ AppExtractTables \/ AppSanitize \/ AppExport \/ AppDownload

SpecConvert == InitConvert /\ [][NextConvert]_vars

(***************************************************************************)
(* Properties of the extractor (SpecExtract)                               *)
(***************************************************************************)
ValidDocument(d) == d.size <= max_file_size /\ d.header /\ d.eof /\ d.opens

\* Per page, the text extract_text is to deliver: the processed text of the
\* page, the empty string for a page without text.
ProcessedPages(d, o) ==
    [i \in 1..Len(d.pages) |->
        IF d.pages[i].text # <<>>
        THEN ProcessPageText(d.pages[i].text, o.preserve_formatting,
                             o.merge_text_blocks)
        ELSE <<>>]

\* C1: for a valid PDF with N >= 1 pages extract_text returns, split by
\* pages, the N processed page texts in page order, and otherwise those N
\* texts joined by the page-break separator.
C1_EveryPageInOrder ==
    (pc = "done" /\ op = "text" /\ ValidDocument(pdf) /\ Len(pdf.pages) >= 1)
    => IF opts.split_by_pages
       THEN result.kind = "pages" /\ result.pages = ProcessedPages(pdf, opts)
       ELSE /\ result.kind = "text"
            /\ result.text = Join(PAGE_BREAK, ProcessedPages(pdf, opts))

\* Every page carries raw tables and each of them is non-empty after cleaning.
EveryPageHasTables(d, o) ==
    \A i \in 1..Len(d.pages) :
        /\ d.pages[i].tables # <<>>
        /\ \A k \in 1..Len(d.pages[i].tables) :
              LET b == BuildTable(d.pages[i].tables[k], o.remove_empty_rows, i, k)
              IN b.kind = "df" /\ ~DfEmpty(b.df)

\* One Table per raw table, in page order then intra-page order, tagged with
\* the 1-based page number and the 1-based index within the page.
TablesOfEveryPage(d, o) ==
    Concat([i \in 1..Len(d.pages) |->
              [k \in 1..Len(d.pages[i].tables) |->
                  BuildTable(d.pages[i].tables[k], o.remove_empty_rows, i, k).df]])

\* C2: extract_tables returns one Table per raw table of every page, in page
\* order then intra-page order, with the page number and the index within
\* the page as provenance.
C2_TablesOfEveryPage ==
    (/\ pc = "done" /\ op = "tables" /\ ValidDocument(pdf)
     /\ Len(pdf.pages) >= 1 /\ EveryPageHasTables(pdf, opts))
    => /\ result.kind = "tables"
       /\ result.tables = TablesOfEveryPage(pdf, opts)

\* C3: for a document longer than 50 MiB, extract_text and extract_tables
\* never hand the bytes to the parser and end with the size error, which
\* names the actual size to the nearest tenth of a MB and the maximum of
\* 50.0 MB, whether or not the bytes carry the signature and the EOF marker
\* and whether or not the parser would find a document in them.
C3_OversizeRejected ==
    (pdf.size > 50 * 1024 * 1024 /\ op \in {"text", "tables"})
    => /\ parser_calls = 0
       /\ pc # "validated"
       /\ pc = "done"
          => /\ result.kind = "error" /\ result.op = op
             /\ result.cause.kind = "size"
             /\ 2 * (result.cause.actual * 1024 * 1024 - pdf.size * 10) <= 1024 * 1024
             /\ 2 * (pdf.size * 10 - result.cause.actual * 1024 * 1024) <= 1024 * 1024
             /\ result.cause.maximum = 500

\* C3 witness: extract_text has raised the size error for a document of
\* 50 MiB + 1 bytes that has a page with text but neither the signature nor
\* the EOF marker, and the parser was not called.
C3_OversizeUnsignedRejected ==
    /\ pc = "done" /\ op = "text"
    /\ pdf.size = 50 * 1024 * 1024 + 1
    /\ ~pdf.header /\ ~pdf.eof /\ pdf.opens
    /\ Len(pdf.pages) >= 1 /\ pdf.pages[1].text # <<>>
    /\ result.kind = "error" /\ result.cause.kind = "size"
    /\ result.cause.actual = 500 /\ result.cause.maximum = 500
    /\ parser_calls = 0

\* C4: a document that does not start with %PDF- makes extract_text and
\* extract_tables raise, whatever its size and EOF marker; the parser is not
\* called and extract_tables returns no (empty) table list instead.
C4_MissingHeaderRaises ==
    (~pdf.header /\ op \in {"text", "tables"})
    => /\ parser_calls = 0
       /\ pc # "validated"
       /\ pc = "done" => result.kind = "error" /\ result.op = op

\* C4 witness: extract_tables has raised for a document of allowed size with
\* the EOF marker and without the signature.
C4_MissingHeaderRejected ==
    /\ pc = "done" /\ op = "tables"
    /\ ~pdf.header /\ pdf.eof /\ pdf.size <= 50 * 1024 * 1024
    /\ result.kind = "error" /\ result.cause.kind = "header"

\* The raw table a returned primary Table was built from.
RawTableOf(df) == pdf.pages[Len(pdf.pages)].tables[df.table.n]

\* C5: in every Table extract_tables returns, from the cleaning step or from
\* the fallback, each row has as many cells as the header has names and
\* every cell is a string; the cells added to a raw row shorter than the
\* header are empty strings.
C5_RowsMatchHeader ==
    (pc = "done" /\ result.kind = "tables")
    => \A t \in 1..Len(result.tables) :
         LET df == result.tables[t]
         IN /\ \A r \in 1..Len(df.rows) :
                 /\ Len(df.rows[r]) = Len(df.columns)
                 /\ \A c \in 1..Len(df.rows[r]) : ~df.rows[r][c].none
            /\ (~result.fallback /\ ~opts.remove_empty_rows)
               => /\ Len(df.rows) = Len(RawTableOf(df)) - 1
                  /\ \A r \in 1..Len(df.rows) :
                       \A c \in 1..Len(df.columns) :
                          c > Len(RawTableOf(df)[r + 1])
                          => df.rows[r][c] = [none |-> FALSE, s |-> <<>>]

\* C5 witness: a returned Table has a row whose raw row was shorter than the
\* header.
C5_ShortRowPadded ==
    /\ pc = "done" /\ result.kind = "tables" /\ ~result.fallback
    /\ ~opts.remove_empty_rows
    /\ \E t \in 1..Len(result.tables) :
         \E r \in 1..Len(result.tables[t].rows) :
            Len(RawTableOf(result.tables[t])[r + 1]) < Len(result.tables[t].columns)

\* The cell of a raw row in column c; None where the row is too short.
RawCellAt(row, c) == IF c <= Len(row) THEN row[c] ELSE [none |-> TRUE, s |-> <<>>]

\* A raw data row that is neither entirely None nor entirely the empty string.
RowHasContent(row, width) ==
    /\ \E c \in 1..width : ~RawCellAt(row, c).none
    /\ \E c \in 1..width : RawCellAt(row, c).none \/ RawCellAt(row, c).s # <<>>

\* The 1-based indices of the data rows of a raw table that are to be kept.
KeptRows(raw, width, remove) ==
    SelectSeq([j \in 1..(Len(raw) - 1) |-> j],
              LAMBDA j : ~remove \/ RowHasContent(raw[j + 1], width))

\* C8: with empty-row removal a Table keeps exactly the data rows of its raw
\* table that are neither entirely None nor entirely empty strings, in their
\* order; without it no data row is dropped.
C8_EmptyRowsRemoved ==
    (pc = "done" /\ result.kind = "tables" /\ ~result.fallback)
    => \A t \in 1..Len(result.tables) :
         LET df == result.tables[t]
             raw == RawTableOf(df)
             kept == KeptRows(raw, Len(df.columns), opts.remove_empty_rows)
         IN /\ Len(df.rows) = Len(kept)
            /\ \A m \in 1..Len(kept) :
                 \A c \in 1..Len(df.columns) :
                    df.rows[m][c] = CleanCell(RawCellAt(raw[kept[m] + 1], c))
            /\ ~opts.remove_empty_rows => Len(df.rows) = Len(raw) - 1

\* C8 witness: the raw table with the data rows ["1","2"], ["",""], ["3","4"]
\* has become a Table with exactly the rows ["1","2"] and ["3","4"].
C8_ExampleTwoRows ==
    /\ pc = "done" /\ result.kind = "tables" /\ ~result.fallback
    /\ opts.remove_empty_rows
    /\ pdf.pages[Len(pdf.pages)].tables = << TableC8 >>
    /\ Len(result.tables) = 1
    /\ result.tables[1].rows =
         << << StrCell(<< "1" >>), StrCell(<< "2" >>) >>,
            << StrCell(<< "3" >>), StrCell(<< "4" >>) >> >>

(***************************************************************************)
(* Properties of the sanitizer (SpecSanitize)                              *)
(***************************************************************************)
\* C6: sanitizing the output of sanitize_text again with the same flags
\* changes nothing.
C6_Idempotent == passes >= 2 => text = previous

\* An address local@domain.tld: a local part of letters, digits and
\* ._%+-, a domain of letters, digits, dots and hyphens, and a top-level
\* name of two or more letters.
IsAddress(e) ==
    \E a \in 2..Len(e) : \E d \in (a + 2)..(Len(e) - 2) :
        /\ e[a] = "@"
        /\ e[d] = "."
        /\ \A k \in 1..(a - 1) :
              e[k] \in Lower \cup Upper \cup Digit \cup {".", "_", "%", "+", "-"}
        /\ \A k \in (a + 1)..(d - 1) :
              e[k] \in Lower \cup Upper \cup Digit \cup {".", "-"}
        /\ \A k \in (d + 1)..Len(e) : e[k] \in Lower \cup Upper

\* Such an address with a letter, a digit or an underscore in its local part.
IsEmailAddress(e) ==
    /\ IsAddress(e)
    /\ \E a \in 2..Len(e) :
          /\ e[a] = "@"
          /\ \E k \in 1..(a - 1) : e[k] \in Lower \cup Upper \cup Digit \cup {"_"}

\* s[i..j] lies between whitespace or the ends of s.
Delimited(s, i, j) ==
    /\ i = 1 \/ s[i - 1] \in Whitespace
    /\ j = Len(s) \/ s[j + 1] \in Whitespace

\* The placeholder the email substitution writes.
EmailPlaceholder ==
    <<"[", "E", "M", "A", "I", "L", "_", "R", "E", "D", "A", "C", "T", "E", "D", "]">>

\* e occurs in s between whitespace or the ends of s.
OccursDelimited(e, s) ==
    \E i \in 1..Len(s) : \E j \in i..Len(s) :
        Delimited(s, i, j) /\ SubSeq(s, i, j) = e

\* C7: with basic sanitization, the output for a text in which an email
\* address with a letter, a digit or an underscore in its local part stands
\* between whitespace or the ends of the text contains [EMAIL_REDACTED], and
\* the address stands nowhere in the output between whitespace or the ends
\* of the output.
C7_EmailRedacted ==
    (passes >= 1 /\ flags.basic_sanitization)
    => \A i \in 1..Len(previous) : \A j \in (i + 1)..Len(previous) :
         (Delimited(previous, i, j) /\ IsEmailAddress(SubSeq(previous, i, j)))
         => /\ Contains(text, EmailPlaceholder)
            /\ ~OccursDelimited(SubSeq(previous, i, j), text)

\* C7 as stated: with basic sanitization, the output for a text in which an
\* email address local@domain.tld stands between whitespace or the ends of
\* the text contains [EMAIL_REDACTED] and does not contain the address
\* anywhere.
C7_AddressNowhere ==
    (passes >= 1 /\ flags.basic_sanitization)
    => \A i \in 1..Len(previous) : \A j \in (i + 1)..Len(previous) :
         (Delimited(previous, i, j) /\ IsAddress(SubSeq(previous, i, j)))
         => /\ Contains(text, EmailPlaceholder)
            /\ ~Contains(text, SubSeq(previous, i, j))

\* C7 as stated, for the addresses with a letter, a digit or an underscore
\* in the local part only: refuted by 'a@b.com a@b.com1' and
\* 'a@b.com_ a@b.com', whose outputs '[EMAIL_REDACTED] a@b.com1' and
\* 'a@b.com_ [EMAIL_REDACTED]' still contain the address.
C7_WordLocalPartNowhere ==
    (passes >= 1 /\ flags.basic_sanitization)
    => \A i \in 1..Len(previous) : \A j \in (i + 1)..Len(previous) :
         (Delimited(previous, i, j) /\ IsEmailAddress(SubSeq(previous, i, j)))
         => /\ Contains(text, EmailPlaceholder)
            /\ ~Contains(text, SubSeq(previous, i, j))

\* C7 with the weaker conclusion, for every address local@domain.tld:
\* refuted by '+@b.com', which the pattern does not match (no word boundary
\* before a local part of punctuation) and which is returned unchanged.
C7_AnyLocalPartRedacted ==
    (passes >= 1 /\ flags.basic_sanitization)
    => \A i \in 1..Len(previous) : \A j \in (i + 1)..Len(previous) :
         (Delimited(previous, i, j) /\ IsAddress(SubSeq(previous, i, j)))
         => /\ Contains(text, EmailPlaceholder)
            /\ ~OccursDelimited(SubSeq(previous, i, j), text)

\* C7 witness: "contact a@b.com now" has become "contact [EMAIL_REDACTED] now".
C7_ContactExample ==
    /\ passes = 1 /\ flags.basic_sanitization
    /\ previous = <<"c", "o", "n", "t", "a", "c", "t", " ", "a", "@", "b", ".", "c", "o", "m", " ", "n", "o", "w">>
    /\ text = <<"c", "o", "n", "t", "a", "c", "t", " ", "[", "E", "M", "A", "I", "L", "_", "R", "E", "D", "A", "C", "T", "E", "D", "]", " ", "n", "o", "w">>

\* NNN-NN-NNNN
IsSSN(t) ==
    /\ Len(t) = 11
    /\ \A k \in 1..11 : IF k \in {4, 7} THEN t[k] = "-" ELSE t[k] \in Digit

\* Sixteen digits, contiguous or in groups of four separated by a space or
\* a hyphen.
IsCard(t) ==
    \/ Len(t) = 16 /\ \A k \in 1..16 : t[k] \in Digit
    \/ /\ Len(t) = 19
       /\ \A k \in 1..19 :
             IF k \in {5, 10, 15} THEN t[k] \in {" ", "-"} ELSE t[k] \in Digit

\* Fifteen digits, or seventeen digits and a digit, X or x.
IsChineseId(t) ==
    \/ Len(t) = 15 /\ \A k \in 1..15 : t[k] \in Digit
    \/ /\ Len(t) = 18
       /\ \A k \in 1..17 : t[k] \in Digit
       /\ t[18] \in Digit \cup {"X", "x"}

\* The placeholder the claim assigns to a token, <<>> for other tokens.
PlaceholderOf(t) ==
    IF IsSSN(t) THEN <<"[", "S", "S", "N", "_", "R", "E", "D", "A", "C", "T", "E", "D", "]">>
    ELSE IF IsCard(t) THEN <<"[", "C", "A", "R", "D", "_", "R", "E", "D", "A", "C", "T", "E", "D", "]">>
    ELSE IF IsChineseId(t) THEN <<"[", "I", "D", "_", "R", "E", "D", "A", "C", "T", "E", "D", "]">>
    ELSE <<>>

\* C13: with basic sanitization an SSN, a 16-digit card number and a
\* Chinese ID number, standing alone or after words without digits, is
\* replaced as a whole by [SSN_REDACTED], [CARD_REDACTED] and [ID_REDACTED]
\* respectively, so that none of its characters remains.
C13_SpecificBeforeGeneric ==
    (passes = 1 /\ flags.basic_sanitization)
    => \A i \in 0..Len(previous) :
         LET pre == SubSeq(previous, 1, i)
             tok == SubSeq(previous, i + 1, Len(previous))
         IN (/\ i = 0 \/ previous[i] = " "
             /\ \A k \in 1..i : pre[k] \in Lower \cup {" "}
             /\ PlaceholderOf(tok) # <<>>)
            => text = pre \o PlaceholderOf(tok)

\* C14: with redact_numbers the output of sanitize_text holds no run of
\* four or more digits, whatever stands before and after the run in the
\* input.
C14_NoDigitRunLeft ==
    (passes >= 1 /\ flags.redact_numbers)
    => ~\E i \in 1..(Len(text) - 3) : \A k \in i..(i + 3) : text[k] \in Digit

\* t holds a run of n or more consecutive digits.
HasDigitRun(t, n) ==
    \E i \in 1..(Len(t) - n + 1) : \A k \in i..(i + n - 1) : t[k] \in Digit

\* C22: with basic sanitization on, the output of sanitize_text for a
\* non-empty string holds no run of 10 or more consecutive digits, whatever
\* surrounds the run in the input and whatever redact_numbers is.
C22_NoTenDigitRun ==
    (passes >= 1 /\ flags.basic_sanitization /\ original # <<>>)
    => ~HasDigitRun(text, 10)

\* 'a_12345678901_b', a run of 11 digits between underscores, has become
\* 'a_[PHONE_REDACTED]_b' without redact_numbers.
C22_RunBetweenUnderscores ==
    /\ passes = 1
    /\ flags.basic_sanitization /\ ~flags.redact_numbers
    /\ previous = <<"a", "_", "1", "2", "3", "4", "5", "6", "7", "8", "9", "0", "1", "_", "b">>
    /\ HasDigitRun(previous, 10)
    /\ text = <<"a", "_">> \o PHONE_REDACTED \o <<"_", "b">>

(***************************************************************************)
(* Properties of sanitize_extracted_data (SpecSanitizeData)                *)
(***************************************************************************)
RECURSIVE SanitizedThroughout(_, _, _)
\* The value of the same shape with every string sanitized: a str
\* sanitized, a list and a dict element by element, a DataFrame cell by
\* cell, anything else as it is.
SanitizedThroughout(v, basic, numbers) ==
    CASE v.k = "str" -> PyStr(sanitize_text(v.s, basic, numbers))
      [] v.k = "list" ->
           PyList([i \in 1..Len(v.items) |->
                     SanitizedThroughout(v.items[i], basic, numbers)])
      [] v.k = "dict" ->
           PyDict(v.keys, [i \in 1..Len(v.items) |->
                             SanitizedThroughout(v.items[i], basic, numbers)])
      [] v.k = "df" ->
           PyFrame([v.df EXCEPT !.rows =
              [r \in 1..Len(v.df.rows) |->
                 [c \in 1..Len(v.df.rows[r]) |->
                    StrCell(sanitize_text(CellStr(v.df.rows[r][c]), basic, numbers))]]])
      [] OTHER -> v

\* C12: sanitize_extracted_data returns and its value has the shape of its
\* argument, with every string at any depth sanitized and every value that
\* is neither a string nor a container unchanged.
C12_SameShapeSanitized ==
    /\ spc # "raised"
    /\ spc = "done"
       => sanitized_data = SanitizedThroughout(extracted_data,
                              flags.basic_sanitization, flags.redact_numbers)

\* The call was given a non-empty list of DataFrames, to each of which
\* sanitize_dataframe is applied.
ListOfFrames(v) ==
    /\ v.k = "list" /\ v.items # <<>>
    /\ \A i \in 1..Len(v.items) : v.items[i].k = "df"

\* The table out has the rows, the row widths, the column names and the
\* provenance of the table in.
SameFrame(in, out) ==
    /\ out.columns = in.columns
    /\ out.page = in.page /\ out.table = in.table
    /\ Len(out.rows) = Len(in.rows)
    /\ \A r \in 1..Len(in.rows) : Len(out.rows[r]) = Len(in.rows[r])

\* C21: sanitize_dataframe returns, for every table it is given, a table
\* with the same number of rows, the same column names in the same order and
\* the same provenance metadata; column names are returned unsanitized even
\* when they match a redaction pattern.
C21_FrameKept ==
    (spc # "called" /\ ListOfFrames(extracted_data))
    => /\ spc = "done"
       /\ sanitized_data.k = "list"
       /\ Len(sanitized_data.items) = Len(extracted_data.items)
       /\ \A i \in 1..Len(extracted_data.items) :
             /\ sanitized_data.items[i].k = "df"
             /\ SameFrame(extracted_data.items[i].df, sanitized_data.items[i].df)

(***************************************************************************)
(* Properties of the page text and of the fallback (SpecLayout)            *)
(***************************************************************************)
\* extract_text has returned for a valid document of one page with text.
OnePageTextDone ==
    /\ pc = "done" /\ op = "text"
    /\ ValidDocument(pdf)
    /\ Len(pdf.pages) = 1
    /\ pdf.pages[1].text # <<>>

\* The characters of t outside the ASCII whitespace set, in order.
OutsideAsciiSpace(t) == SelectSeq(t, LAMBDA c : c \notin AsciiSpace)

\* The only ASCII whitespace of t are single spaces.
SingleSpacesOnly(t) ==
    /\ \A i \in 1..Len(t) : t[i] \in AsciiSpace => t[i] = " "
    /\ \A i \in 1..(Len(t) - 1) : ~(t[i] = " " /\ t[i + 1] = " ")

\* C16: with formatting preservation disabled, the text returned for a page
\* has every run of ASCII whitespace replaced by one space, and every
\* character outside the ASCII whitespace set (Chinese characters, the
\* ideographic space U+3000) unmodified and in place.
C16_OnlyAsciiWhitespaceCollapsed ==
    (/\ OnePageTextDone
     /\ ~opts.preserve_formatting /\ ~opts.merge_text_blocks
     /\ opts.split_by_pages)
    => /\ result.kind = "pages"
       /\ OutsideAsciiSpace(result.pages[1]) = OutsideAsciiSpace(pdf.pages[1].text)
       /\ SingleSpacesOnly(result.pages[1])

RECURSIVE ParagraphsOf(_, _, _)
\* The paragraphs of the stated rule: a non-blank line joins the accumulated
\* paragraph by one space unless that paragraph exceeds 100 characters or
\* the line starts with an uppercase ASCII letter; a blank line ends it.
ParagraphsOf(lines, done, paragraph) ==
    IF lines = <<>>
    THEN IF paragraph # <<>> THEN Append(done, paragraph) ELSE done
    ELSE IF Strip(Head(lines)) = <<>>
    THEN ParagraphsOf(Tail(lines),
                      IF paragraph # <<>> THEN Append(done, paragraph) ELSE done,
                      <<>>)
    ELSE IF /\ paragraph # <<>>
            /\ ~(Len(paragraph) > 100)
            /\ Strip(Head(lines))[1] \notin Upper
    THEN ParagraphsOf(Tail(lines), done,
                      paragraph \o << " " >> \o Strip(Head(lines)))
    ELSE ParagraphsOf(Tail(lines),
                      IF paragraph # <<>> THEN Append(done, paragraph) ELSE done,
                      Strip(Head(lines)))

\* C17: with block-merging enabled the text returned for a page is its
\* paragraphs under the stated rule: a paragraph of exactly 100 characters
\* still absorbs the next line, and a line starting with a non-ASCII
\* character is always merged.
C17_ParagraphsMerged ==
    (/\ OnePageTextDone
     /\ opts.preserve_formatting /\ opts.merge_text_blocks
     /\ opts.split_by_pages)
    => /\ result.kind = "pages"
       /\ result.pages[1] =
            Join(<< "\n" >>,
                 ParagraphsOf(SplitChar(pdf.pages[1].text, "\n"), <<>>, <<>>))

\* extract_tables has returned tables for a valid document with pages.
TablesDone ==
    /\ pc = "done" /\ op = "tables"
    /\ ValidDocument(pdf)
    /\ Len(pdf.pages) >= 1
    /\ result.kind = "tables"

\* C18: the fallback is invoked if and only if the primary mechanism
\* detected no table on any page of the document.
C18_FallbackIffNoTables ==
    TablesDone
    => (result.fallback <=> \A i \in 1..Len(pdf.pages) : pdf.pages[i].tables = <<>>)

\* The fallback has answered for a valid document of one page.
OnePageFallbackDone ==
    /\ TablesDone
    /\ Len(pdf.pages) = 1
    /\ result.fallback

\* A line split on the strongest delimiter it contains, in the priority
\* tab, pipe, comma, run of two or more spaces.
SplitOnStrongest(line) ==
    IF Contains(line, << "\t" >>) \/ Contains(line, << "|" >>)
    THEN SplitTableLine(line)
    ELSE IF Contains(line, << "," >>) THEN SplitChar(line, ",")
    ELSE SplitTableLine(line)

StrippedCells(row) == [k \in 1..Len(row) |-> Strip(row[k])]

\* The rows of the stated rule for a page text: the candidate lines split on
\* their strongest delimiter, those of more than one cell padded with empty
\* strings to the longest row's length; cells compared without the
\* whitespace around them.
ExpectedRows(page_text) ==
    LET potential == PotentialTableLines(page_text)
        split == [k \in 1..Len(potential) |->
                    StrippedCells(SplitOnStrongest(potential[k]))]
        rows == SelectSeq(split, LAMBDA row : Len(row) > 1)
    IN IF Len(potential) >= 2 /\ Len(rows) > 1
       THEN [r \in 1..Len(rows) |-> PadRow(rows[r], MaxRowLen(rows), <<>>)]
       ELSE <<>>

\* The header and the rows of the returned tables, cells without the
\* whitespace around them.
ReturnedRows(tables) ==
    IF tables = <<>> THEN <<>>
    ELSE << StrippedCells(tables[1].columns) >>
         \o [r \in 1..Len(tables[1].rows) |->
               [k \in 1..Len(tables[1].rows[r]) |->
                  Strip(CellStr(tables[1].rows[r][k]))]]

\* C19: the fallback splits each candidate line on the strongest delimiter
\* it contains (tab > pipe > comma > run of spaces), pads the rows with
\* empty strings to the longest row's length and makes the first row the
\* header.
C19_StrongestDelimiter ==
    OnePageFallbackDone
    => /\ Len(result.tables) <= 1
       /\ ReturnedRows(result.tables) = ExpectedRows(pdf.pages[1].text)

\* Whether the k-th line of the page qualifies as a table line.
Qualifies(lines, k) ==
    /\ k \in 1..Len(lines)
    /\ Len(SplitWords(Strip(lines[k]))) >= 2
    /\ HasDelimiterHint(Strip(lines[k]))

\* The lengths of the runs of consecutive qualifying lines of a page text.
RunLengths(page_text) ==
    LET lines == SplitChar(page_text, "\n")
    IN { j - i + 1 : i \in 1..Len(lines), j \in 1..Len(lines) } \cap
       { n \in 1..Len(lines) :
           \E i \in 1..(Len(lines) - n + 1) :
               \A k \in i..(i + n - 1) : Qualifies(lines, k) }

\* C20: a Table of the fallback is formed from two or more consecutive
\* qualifying lines only: it has no more lines than a run of consecutive
\* qualifying lines has, and a page whose qualifying lines are all isolated
\* yields no Table.
C20_ConsecutiveLinesOnly ==
    OnePageFallbackDone
    => \A t \in 1..Len(result.tables) :
          \E n \in RunLengths(pdf.pages[1].text) :
              n >= 2 /\ 1 + Len(result.tables[t].rows) <= n

(***************************************************************************)
(* Properties of the Convert handler (SpecConvert)                         *)
(***************************************************************************)
\* The stage a call belongs to: 1 Extractor, 2 Sanitizer, 3 Exporter.
StageOf(c) ==
    CASE c \in {"extract_text", "extract_tables"} -> 1
      [] c = "sanitize_extracted_data" -> 2
      [] OTHER -> 3

Called(c) == \E i \in 1..Len(calls) : calls[i] = c

\* The text extraction of the request raises.
TextExtractionFails ==
    /\ extraction_method \in {"Text Extraction", "Both Text and Tables"}
    /\ extract_text(pdf, opts.preserve_formatting, opts.split_by_pages,
                    opts.merge_text_blocks).res.kind = "error"

\* The table extraction of the request raises.
TableExtractionFails ==
    /\ extraction_method \in {"Table Detection", "Both Text and Tables"}
    /\ extract_tables(pdf, opts.remove_empty_rows).res.kind = "error"

\* C15: in one request the calls go Extractor, Sanitizer, Exporter, the
\* Sanitizer being called exactly when a flag is set; a failing extraction
\* leaves the Sanitizer and the Exporter uncalled and no download offered
\* (and in Both a failing text extraction leaves extract_tables uncalled);
\* once the Exporter is called no error is shown and the request ends with
\* a download of a workbook that has a sheet.
C15_StagesInOrder ==
    /\ \A i, j \in 1..Len(calls) :
          i < j => /\ StageOf(calls[i]) <= StageOf(calls[j])
                   /\ calls[i] # calls[j]
    /\ Called("convert_to_excel")
       => (Called("sanitize_extracted_data")
           <=> (flags.basic_sanitization \/ flags.redact_numbers))
    /\ (TextExtractionFails \/ TableExtractionFails)
       => /\ ~Called("sanitize_extracted_data")
          /\ ~Called("convert_to_excel")
          /\ ~download
    /\ TextExtractionFails => ~Called("extract_tables")
    /\ Called("convert_to_excel")
       => /\ ~shown_error
          /\ stage \in {"converted", "done"}
          /\ Len(excel_file) >= 1
    /\ stage = "done" => download

(***************************************************************************)
(* Properties of the exporter (SpecExport)                                 *)
(***************************************************************************)
\* A result without text and without tables, of the shape of the mode.
EmptyResult(d, method) ==
    CASE method = "Text Extraction" -> d \in {PyStr(<<>>), PyList(<<>>)}
      [] method = "Table Detection" -> d = PyList(<<>>)
      [] OTHER ->
           /\ d.k = "dict" /\ d.keys = << TEXT_KEY, TABLES_KEY >>
           /\ d.items[1] \in {PyStr(<<>>), PyList(<<>>)}
           /\ d.items[2] = PyList(<<>>)

\* C9: in every extraction mode the workbook returned for a result without
\* text and without tables has the single sheet "Summary".
C9_EmptyResultOnlySummary ==
    (xpc = "saved" /\ EmptyResult(data, extraction_method))
    => Len(wb) = 1 /\ wb[1].title = <<"S", "u", "m", "m", "a", "r", "y">>

\* C10: every sheet name passed to the workbook has at most 31 characters,
\* none of the characters \ / * ? : [ ], and differs from the name of every
\* other sheet of the workbook.
C10_SheetNamesValid ==
    \A i \in 1..Len(wb) :
        /\ Len(wb[i].title) <= 31
        /\ \A k \in 1..Len(wb[i].title) :
              wb[i].title[k] \notin {"\\", "/", "*", "?", ":", "[", "]"}
        /\ \A j \in 1..Len(wb) : i # j => wb[i].title # wb[j].title

\* C11: convert_to_excel never lets an exception out and returns a workbook
\* with at least one sheet; when a sheet-building step failed, the workbook
\* has the single sheet "Error" with the failure description and the
\* filename.
C11_AlwaysWorkbook ==
    /\ xpc # "raised"
    /\ xpc = "saved"
       => /\ Len(wb) >= 1
          /\ raised => /\ Len(wb) = 1
                       /\ wb[1].title = <<"E", "r", "r", "o", "r">>
                       /\ wb[1].message = error
                       /\ wb[1].filename = filename

\* C10 witness: two table sheets were created whose names had forbidden
\* characters removed and were cut to 31 characters.
C10_TruncatedNames ==
    /\ xpc = "built" /\ extraction_method = "Table Detection"
    /\ data.k = "list" /\ Len(data.items) >= 2
    /\ \A i \in 1..2 :
          /\ data.items[i].k = "df"
          /\ data.items[i].df.page.t = "str"
          /\ Len(data.items[i].df.page.s) > 18
          /\ Len(wb[i].title) = 31

====
